---------------------------- MODULE Spec2Model ----------------------------
(***************************************************************************)
(* Kuha, an OAI-PMH data provider: the persistent metadata model           *)
(* (kuha/models.py), the importer's reconciliation (kuha/importer/         *)
(* harvest.py) and the list verbs with their resumption tokens             *)
(* (kuha/oai/views.py).                                                    *)
(*                                                                         *)
(* The database is modelled as a committed state `db` and the state `tx`   *)
(* seen by the importer's open session; commit() copies tx to db and       *)
(* rollback() copies db to tx.  The second-granular clock is `now`.        *)
(***************************************************************************)
EXTENDS Integers, Sequences, FiniteSets, TLC

\* ------------------------------------------------------------------ bounds

MaxTime == 1

\* The longest sequence provider.identifiers() returns.
MaxListed == 3

\* ---------------------------------------------------------------- universe

NONE == "none"

\* Metadata prefixes a provider may offer.
Prefixes == {"oai_dc", "ddi"}

\* The values of item_list_limit (two items: only 1 makes a second page).
PageLimits == {1}

\* Item identifiers in ascending (string) order; the importer's providers
\* know the first two.
IdOrder == <<"i1", "i2", "i3">>
Identifiers == {IdOrder[k] : k \in 1..2}
IdRank(i) == CHOOSE k \in 1..Len(IdOrder) : IdOrder[k] = i

\* What provider.identifiers() may yield: unicode strings, and other objects
\* (numbers, say) of which `text` is the unicode() value.
RawIdentifiers == [kind : {"unicode", "object"}, text : Identifiers]

SetSpecs == {"a"}

\* The set specs of a provider with a hierarchy, and their colon-separated
\* segments (Set._spec_pattern).
HierarchySpecs == {"a", "a:b"}
Segments == [spec \in HierarchySpecs |->
                IF spec = "a:b" THEN <<"a", "b">> ELSE <<spec>>]
SetName == "name"

\* The seconds of a day.
DaySeconds == 86400

OAI_DC_NS == "http://www.openarchives.org/OAI/2.0/oai_dc/"
OAI_DC_XSD == "http://www.openarchives.org/OAI/2.0/oai_dc.xsd"

\* The (namespace, schema) pairs a provider may declare for a prefix.
FormatDefs(p) ==
    IF p = "oai_dc"
    THEN {[namespace |-> OAI_DC_NS, schema |-> OAI_DC_XSD]}
    ELSE {[namespace |-> "urn:ddi:1", schema |-> "ddi.xsd"],
          [namespace |-> "urn:ddi:2", schema |-> "ddi.xsd"]}

\* An XML document as far as Record._check_xml looks at it: well-formedness,
\* the namespace of the root, the tokens of xsi:schemaLocation, and the rest
\* of the text (body).  XmlNull is Python's None.
XmlNull == [kind |-> "null", ns |-> "", hasLoc |-> FALSE, loc |-> {}, body |-> ""]
XmlDoc(ns, schema, body) ==
    [kind |-> "doc", ns |-> ns, hasLoc |-> TRUE, loc |-> {schema}, body |-> body]

\* --------------------------------------------------------------- variables

VARIABLES
    now,        \* the clock, in seconds
    db,         \* the committed database
    tx,         \* the database as the importer's session sees it
    run,        \* the importer run in progress
    cfg,        \* deployment configuration
    provider,   \* what the metadata provider can answer
    req,        \* the call in progress or last made, and its time
    token,      \* the resumption token the client holds
    resp,       \* the response, when the last step was a request
    hist        \* history: what happened since the held token was issued

vars == <<now, db, tx, run, cfg, provider, req, token, resp, hist>>

\* ------------------------------------------------------------ store helpers

Put(f, k, v) == [x \in DOMAIN f \cup {k} |-> IF x = k THEN v ELSE f[x]]
Drop(f, K) == [x \in DOMAIN f \ K |-> f[x]]

EmptyFn == [x \in {} |-> NONE]

\* The database right after create_engine: all tables empty.
EmptyStore ==
    [formats |-> EmptyFn, items |-> EmptyFn, records |-> EmptyFn,
     sets |-> EmptyFn, links |-> {}, datestamps |-> {}]

\* A faulty Datestamp.update, which adds a row whatever the table holds.
DatestampUpdateNoDedup(s, t) ==
    [s EXCEPT !.datestamps = @ \cup {t}]

\* Datestamp.update: one row is overwritten, no row is inserted, several rows
\* are deleted and one inserted.
DatestampUpdate(s, t) ==
    IF Cardinality(s.datestamps) = 1
    THEN [s EXCEPT !.datestamps = {t}]
    ELSE IF s.datestamps = {}
         THEN [s EXCEPT !.datestamps = @ \cup {t}]
         ELSE [s EXCEPT !.datestamps = {} \cup {t}]

\* Datestamp.get: the first row of an unordered query, or None.
NoDatestamp == [some |-> FALSE, t |-> 0]

DatestampGet(s) ==
    IF s.datestamps = {} THEN {NoDatestamp}
    ELSE {[some |-> TRUE, t |-> t] : t \in s.datestamps}

\* Format.exists / Item.exists
FormatExists(s, prefix, ignore_deleted) ==
    /\ prefix \in DOMAIN s.formats
    /\ ignore_deleted => ~s.formats[prefix].deleted

ItemExists(s, identifier, ignore_deleted) ==
    /\ identifier \in DOMAIN s.items
    /\ ignore_deleted => ~s.items[identifier].deleted

\* Format.list(ignore_deleted) / Item.list(ignore_deleted), as key sets
FormatList(s, ignore_deleted) ==
    {p \in DOMAIN s.formats : ignore_deleted => ~s.formats[p].deleted}

ItemList(s, ignore_deleted) ==
    {i \in DOMAIN s.items : ignore_deleted => ~s.items[i].deleted}

\* Record.mark_as_deleted: the matching non-deleted rows.
MatchingLive(s, identifier, prefix) ==
    {k \in DOMAIN s.records :
        /\ identifier # NONE => k[1] = identifier
        /\ prefix # NONE => k[2] = prefix
        /\ ~s.records[k].deleted}

\* Record.mark_as_deleted: UPDATE ... SET deleted, datestamp WHERE not deleted;
\* the xml column is not part of the update.
RecordMarkAsDeleted(s, identifier, prefix, t) ==
    LET hit == MatchingLive(s, identifier, prefix)
        s1 == [s EXCEPT !.records =
                 [k \in DOMAIN @ |->
                    IF k \in hit
                    THEN [@[k] EXCEPT !.deleted = TRUE, !.datestamp = t]
                    ELSE @[k]]]
    IN IF Cardinality(hit) > 0 THEN DatestampUpdate(s1, t) ELSE s1

\* A faulty Format.mark_as_deleted, which leaves the records of the format.
FormatMarkAsDeletedNoCascade(s, prefix, t) ==
    [s EXCEPT !.formats[prefix].deleted = TRUE]

\* Format.mark_as_deleted
FormatMarkAsDeleted(s, prefix, t) ==
    LET s1 == RecordMarkAsDeleted(s, NONE, prefix, t)
    IN [s1 EXCEPT !.formats[prefix].deleted = TRUE]

\* Format.update
FormatUpdate(s, prefix, namespace, schema, t) ==
    LET f == s.formats[prefix]
        s1 == IF f.namespace # namespace \/ f.schema # schema
              THEN FormatMarkAsDeleted(s, prefix, t)
              ELSE s
    IN [s1 EXCEPT !.formats[prefix] =
          [namespace |-> namespace, schema |-> schema, deleted |-> FALSE]]

\* Format._invalid_characters: the prefixes of the universe with a character
\* that is not URL-unreserved.
InvalidPrefix(prefix) == prefix \in {"d d i"}

\* Format.create_or_update (Format.__init__ raises on an invalid prefix)
FormatCreateOrUpdate(s, prefix, namespace, schema, t) ==
    IF prefix \in DOMAIN s.formats
    THEN [ok |-> TRUE, s |-> FormatUpdate(s, prefix, namespace, schema, t)]
    ELSE IF InvalidPrefix(prefix)
         THEN [ok |-> FALSE, s |-> s]
         ELSE [ok |-> TRUE,
               s |-> [s EXCEPT !.formats = Put(@, prefix,
                        [namespace |-> namespace, schema |-> schema,
                         deleted |-> FALSE])]]

\* Item.create_or_update
ItemCreateOrUpdate(s, identifier) ==
    [s EXCEPT !.items = Put(@, identifier, [deleted |-> FALSE])]

\* Item.mark_as_deleted
ItemMarkAsDeleted(s, identifier, t) ==
    LET s1 == RecordMarkAsDeleted(s, identifier, NONE, t)
    IN [s1 EXCEPT !.items[identifier].deleted = TRUE]

\* Record._check_xml: TRUE when no exception is raised.
CheckXml(xml, format) ==
    /\ xml.kind = "doc"
    /\ xml.ns = format.namespace
    /\ xml.hasLoc
    /\ format.schema \in xml.loc

\* Record.create (Record.__init__, then DBSession.add, then Datestamp.update)
RecordCreate(s, identifier, prefix, xml, t) ==
    IF prefix \notin DOMAIN s.formats THEN [ok |-> FALSE, s |-> s]
    ELSE IF identifier \notin DOMAIN s.items THEN [ok |-> FALSE, s |-> s]
    ELSE IF xml # XmlNull /\ ~CheckXml(xml, s.formats[prefix])
         THEN [ok |-> FALSE, s |-> s]
    ELSE LET s1 == [s EXCEPT !.records = Put(@, <<identifier, prefix>>,
                      [xml |-> xml, deleted |-> FALSE, datestamp |-> t])]
         IN [ok |-> TRUE, s |-> DatestampUpdate(s1, t)]

\* A faulty Record.update, which does not compare the document.
RecordUpdateAlways(s, identifier, prefix, xml, t) ==
    IF prefix \notin DOMAIN s.formats \/ ~CheckXml(xml, s.formats[prefix])
    THEN [ok |-> FALSE, s |-> s]
    ELSE [ok |-> TRUE,
          s |-> DatestampUpdate(
                  [s EXCEPT !.records[<<identifier, prefix>>] =
                     [xml |-> xml, deleted |-> FALSE, datestamp |-> t]], t)]

\* Record.update
RecordUpdate(s, identifier, prefix, xml, t) ==
    LET r == s.records[<<identifier, prefix>>]
    IN IF r.deleted \/ r.xml # xml
       THEN IF prefix \notin DOMAIN s.formats
            THEN [ok |-> FALSE, s |-> s]
            ELSE IF ~CheckXml(xml, s.formats[prefix])
            THEN [ok |-> FALSE, s |-> s]
            ELSE LET s1 == [s EXCEPT !.records[<<identifier, prefix>>] =
                              [xml |-> xml, deleted |-> FALSE, datestamp |-> t]]
                 IN [ok |-> TRUE, s |-> DatestampUpdate(s1, t)]
       ELSE [ok |-> TRUE, s |-> s]

\* A faulty Record.create_or_update, which leaves an existing record alone.
RecordCreateOnly(s, identifier, prefix, xml, t) ==
    IF <<identifier, prefix>> \in DOMAIN s.records
    THEN [ok |-> TRUE, s |-> s]
    ELSE RecordCreate(s, identifier, prefix, xml, t)

\* Record.create_or_update
RecordCreateOrUpdate(s, identifier, prefix, xml, t) ==
    IF <<identifier, prefix>> \in DOMAIN s.records
    THEN RecordUpdate(s, identifier, prefix, xml, t)
    ELSE RecordCreate(s, identifier, prefix, xml, t)

\* A faulty purge_deleted, which removes the rows and leaves the Datestamp.
PurgeDeletedNoBump(s, t) ==
    [s EXCEPT
       !.records = Drop(@, {k \in DOMAIN @ : @[k].deleted}),
       !.formats = Drop(@, {p \in DOMAIN @ : @[p].deleted}),
       !.items = Drop(@, {i \in DOMAIN @ : @[i].deleted})]

\* purge_deleted: bulk DELETE of the deleted records, formats and items
\* (the association table is not touched), then Datestamp.update.
PurgeDeleted(s, t) ==
    LET rs == {k \in DOMAIN s.records : s.records[k].deleted}
        fs == {p \in DOMAIN s.formats : s.formats[p].deleted}
        is == {i \in DOMAIN s.items : s.items[i].deleted}
        purged == Cardinality(rs) + Cardinality(fs) + Cardinality(is)
        s1 == [s EXCEPT !.records = Drop(@, rs),
                        !.formats = Drop(@, fs),
                        !.items = Drop(@, is)]
    IN IF purged > 0 THEN DatestampUpdate(s1, t) ELSE s1

\* ------------------------------------------------------------ the importer

Ok(s) == [ok |-> TRUE, s |-> s]
Fail(s) == [ok |-> FALSE, s |-> s]

\* update_formats, first loop: format_.mark_as_deleted() for every old
\* format the provider no longer offers.
RECURSIVE MarkFormats(_, _, _)
MarkFormats(s, P, t) ==
    IF P = {} THEN s
    ELSE LET p == CHOOSE x \in P : TRUE
         IN MarkFormats(FormatMarkAsDeleted(s, p, t), P \ {p}, t)

\* update_formats, second loop: Format.create_or_update for every provider
\* format; an exception leaves the loop.
RECURSIVE CreateFormats(_, _, _, _)
CreateFormats(s, new_formats, P, t) ==
    IF P = {} THEN Ok(s)
    ELSE LET p == CHOOSE x \in P : TRUE
             r == FormatCreateOrUpdate(s, p, new_formats[p].namespace,
                                       new_formats[p].schema, t)
         IN IF r.ok THEN CreateFormats(r.s, new_formats, P \ {p}, t)
            ELSE Fail(s)

\* update_formats without the check of len(new_formats): an empty answer
\* deletes every format.
UpdateFormatsWritesUnchecked(s, new_formats, purge, dry_run, t) ==
    LET old_formats == FormatList(s, TRUE)
        s1 == IF dry_run THEN s
              ELSE MarkFormats(s, old_formats \ DOMAIN new_formats, t)
        r2 == IF dry_run THEN Ok(s1)
              ELSE CreateFormats(s1, new_formats, DOMAIN new_formats, t)
    IN IF ~r2.ok THEN Fail(s)
       ELSE IF purge /\ ~dry_run THEN Ok(PurgeDeleted(r2.s, t))
            ELSE r2

\* update_formats, the body of the try block: the writes made to the
\* session, or the exception.
UpdateFormatsWrites(s, new_formats, purge, dry_run, t) ==
    IF DOMAIN new_formats = {} THEN Fail(s)
    ELSE LET old_formats == FormatList(s, TRUE)
             s1 == IF dry_run THEN s
                   ELSE MarkFormats(s, old_formats \ DOMAIN new_formats, t)
             r2 == IF dry_run THEN Ok(s1)
                   ELSE CreateFormats(s1, new_formats, DOMAIN new_formats, t)
         IN IF ~r2.ok THEN Fail(s)
            ELSE IF purge /\ ~dry_run THEN Ok(PurgeDeleted(r2.s, t))
                 ELSE r2

\* update_items, first loop
RECURSIVE MarkItems(_, _, _)
MarkItems(s, I, t) ==
    IF I = {} THEN s
    ELSE LET i == CHOOSE x \in I : TRUE
         IN MarkItems(ItemMarkAsDeleted(s, i, t), I \ {i}, t)

\* update_items, second loop
RECURSIVE CreateItems(_, _)
CreateItems(s, I) ==
    IF I = {} THEN s
    ELSE LET i == CHOOSE x \in I : TRUE
         IN CreateItems(ItemCreateOrUpdate(s, i), I \ {i})

\* A faulty frozenset(map(unicode, ...)), which keeps unicode strings only.
StringsOnly(raw) ==
    {raw[k].text : k \in {j \in 1..Len(raw) : raw[j].kind = "unicode"}}

\* update_items: frozenset(map(unicode, provider.identifiers()))
NewIdentifiers(raw) == {raw[k].text : k \in 1..Len(raw)}

\* update_items, the body of the try block once provider.identifiers()
\* has been made a frozenset.
UpdateItemsWrites(s, new_identifiers, purge, dry_run, t) ==
    LET old_items == ItemList(s, TRUE)
        s1 == IF dry_run THEN s
              ELSE MarkItems(s, old_items \ new_identifiers, t)
        s2 == IF dry_run THEN s1 ELSE CreateItems(s1, new_identifiers)
    IN IF purge /\ ~dry_run THEN PurgeDeleted(s2, t) ELSE s2

\* Set.create_or_update, then item.add_to_set
LinkSet(s, identifier, spec) ==
    [s EXCEPT !.sets = Put(@, spec, SetName),
              !.links = @ \cup {<<identifier, spec>>}]

RECURSIVE LinkSets(_, _, _)
LinkSets(s, identifier, specs) ==
    IF specs = {} THEN s
    ELSE LET spec == CHOOSE x \in specs : TRUE
         IN LinkSets(LinkSet(s, identifier, spec), identifier, specs \ {spec})

\* Item.clear_sets
ClearSets(s, identifier) ==
    [s EXCEPT !.links = {l \in @ : l[1] # identifier}]

\* update_sets: `sets` is what provider.get_sets returns; `raises` when it
\* raises instead.  The session keeps what was written before an exception.
UpdateSets(s, identifier, raises, sets, dry_run) ==
    LET s1 == IF dry_run THEN s ELSE ClearSets(s, identifier)
    IN IF raises THEN Fail(s1)
       ELSE IF dry_run THEN Ok(s1)
       ELSE Ok(LinkSets(s1, identifier, sets))

\* update_records, the try block for one (identifier, prefix): `xml` is what
\* provider.get_record returns; `raises` when it raises instead.
UpdateRecordWrites(s, identifier, prefix, raises, xml, dry_run, t) ==
    IF raises THEN Fail(s)
    ELSE IF xml = XmlNull
         THEN IF dry_run THEN Ok(s)
              ELSE Ok(RecordMarkAsDeleted(s, identifier, prefix, t))
         ELSE IF dry_run THEN Ok(s)
              ELSE RecordCreateOrUpdate(s, identifier, prefix, xml, t)

\* ------------------------------------------------------------------ state

\* No run in progress; `completed` tells that the last call of update
\* returned, `error` names the exception that left it otherwise.  `got` is history: what
\* provider.get_record returned to the run, by (identifier, prefix), kept
\* by the steps that are asked to keep it; so is `sets`, what
\* provider.get_sets returned for the identifier in hand.
Idle == [pc |-> "idle", dry_run |-> FALSE, since |-> FALSE,
         prefixes |-> {}, identifiers |-> {}, todo |-> {},
         cur |-> NONE, todoPrefixes |-> {}, completed |-> FALSE,
         got |-> EmptyFn, sets |-> {}, error |-> "",
         old_timestamp |-> [some |-> FALSE, t |-> 0], new_timestamp |-> 0]

\* The text of an exception, str(e): "ascii", or "unicode" for a message
\* that is a unicode string with a character outside ASCII.
ExceptionTexts == {"ascii", "unicode"}

\* '...{0}'.format(e) in an except block, the argument of log.exception:
\* a byte string formats e by str(e), which raises UnicodeEncodeError for
\* a unicode message with a character outside ASCII.
FormatException(text) == IF text = "ascii" THEN "" ELSE "UnicodeEncodeError"

\* The except block of update_formats and update_items, after
\* models.rollback(): log.exception(....format(e)), then
\* raise HarvestError(e.message).
StepError(text) ==
    IF FormatException(text) # "" THEN FormatException(text)
    ELSE "HarvestError"

\* update has been left by the exception `error`.
Aborted(error) == [Idle EXCEPT !.error = error]

\* A datestamp text: YYYY-MM-DDThh:mm:ssZ ("second"), YYYY-MM-DD ("day"), a
\* text of neither shape ("garbage"); NoDate is Python's None.
NoDate == [shape |-> "absent", value |-> 0]

\* The keys of the JSON object of _create_resumption_token.
TokenKeys ==
    {"verb", "metadataPrefix", "offset", "date", "from", "until", "set"}

\* A resumption token as a client presents it: none, the empty string, or
\* another text.  `json` is what json.loads makes of the text: "text" (not
\* JSON), "array" (JSON, not an object) or "object".  Of an object,
\* `absent` are the keys of TokenKeys it lacks, `nonstring` the keys whose
\* value is neither null nor a string, `illegal` tells that it has a key
\* outside TokenKeys, and the other fields are the values of its keys
\* (NONE and NoDate for null).
NoToken == [kind |-> "none", verb |-> "", metadataPrefix |-> "",
            offset |-> NONE, date |-> NoDate, from |-> NoDate,
            until |-> NoDate, set |-> NONE, json |-> "text",
            absent |-> {}, nonstring |-> {}, illegal |-> FALSE]

EmptyToken == [NoToken EXCEPT !.kind = "empty"]

\* History kept for the token the client holds: since it was issued, did a
\* commit change the database, its records (or purge a row), its set links.
NoHistory == [changed |-> FALSE, mutated |-> FALSE, relinked |-> FALSE]

\* The parameters a handler works with (request.params, or the parsed
\* token): `keys` are the names present, `repeated` those given more than
\* once (getall), the other fields the values, NONE and NoDate where
\* params.get gives None.  "x" is a name no verb knows.  The value of
\* resumptionToken is kept apart from request.params, so `keys` never has
\* it, while `repeated` has it when the request gives it twice.
NoParams == [verb |-> "", metadataPrefix |-> NONE, set |-> NONE,
             offset |-> NONE, identifier |-> NONE, from |-> NoDate,
             until |-> NoDate, keys |-> {}, repeated |-> {}]

\* The limit argument of Record.list: None, or a number.
NoLimit == [some |-> FALSE, n |-> 0]

Limit(n) == [some |-> TRUE, n |-> n]

\* The arguments of a call of Record.list.
NoQuery == [metadata_prefix |-> NONE, from_date |-> NoDatestamp,
            until_date |-> NoDatestamp, set_ |-> NONE,
            ignore_deleted |-> FALSE, offset |-> NONE, limit |-> NoLimit]

\* What a response renders: the records (by identifier), the formats (by
\* prefix), the earliest datestamp, the resumption token, the time.
NoResponse == [kind |-> "none", verb |-> "", presented |-> NoToken,
               error |-> "", records |-> <<>>, token |-> NoToken,
               time |-> 0, hist |-> NoHistory, params |-> NoParams,
               formats |-> {}, earliest |-> 0, request |-> NoParams,
               sets |-> {}, query |-> NoQuery, specs |-> <<>>,
               xml |-> XmlNull, store |-> EmptyStore,
               format |-> [namespace |-> "", schema |-> ""],
               first |-> NoParams, pages |-> <<>>, offsets |-> <<>>]

NoRequest == [pc |-> "none", time |-> 0]

\* -------------------------------------------------------------- the engine

ListVerbs == {"ListRecords", "ListIdentifiers"}

\* util.format_datestamp: the text YYYY-MM-DDThh:mm:ssZ of a time.
FormatDatestamp(t) == [shape |-> "second", value |-> t]

\* util.parse_date(text, default_time): the time of a text, with its
\* granularity; ValueError otherwise.  The text is chosen by its length, 20
\* or 10 characters, and read by strptime, which ignores case and takes a
\* space for the leading zero of the day: "second_loose" and "day_loose"
\* are texts it reads though they are not of the shapes
\* YYYY-MM-DDThh:mm:ssZ and YYYY-MM-DD (2014-01-01t00:00:00z,
\* 2014-01- 1).  A day starts DaySeconds after the day before, and
\* default_time is counted from its start.
ParseDate(text, default_time) ==
    IF text.shape \in {"second", "second_loose"}
    THEN [ok |-> TRUE, date |-> text.value, granularity |-> "second"]
    ELSE IF text.shape \in {"day", "day_loose"}
         THEN [ok |-> TRUE, date |-> text.value * DaySeconds + default_time,
               granularity |-> "day"]
         ELSE [ok |-> FALSE, date |-> 0, granularity |-> ""]

\* _parse_from_and_until: BadArgument, or the two bounds (NoDatestamp for
\* None).
ParseFromAndUntil(from, until) ==
    LET f == ParseDate(from, 0)
        u == ParseDate(until, DaySeconds - 1)
        bad == [error |-> "BadArgument", from_date |-> NoDatestamp,
                until_date |-> NoDatestamp]
    IN IF from # NoDate /\ ~f.ok THEN bad
       ELSE IF until # NoDate /\ ~u.ok THEN bad
       ELSE IF from # NoDate /\ until # NoDate
               /\ (f.granularity # u.granularity \/ f.date > u.date)
       THEN bad
       ELSE [error |-> "",
             from_date |-> IF from = NoDate THEN NoDatestamp
                           ELSE [some |-> TRUE, t |-> f.date],
             until_date |-> IF until = NoDate THEN NoDatestamp
                            ELSE [some |-> TRUE, t |-> u.date]]

\* The identifiers of S in ascending order (ORDER BY identifier).
SortIds(S) == SelectSeq(IdOrder, LAMBDA i : i \in S)

Take(q, n) == IF Len(q) <= n THEN q ELSE SubSeq(q, 1, n)

\* Record.list raises ValueError for a negative limit.
RecordListRaises(limit) == limit.some /\ limit.n < 0

\* A faulty Record.list, which takes the records of the subsets of set_
\* too.
RecordListOfSubsets(s, metadata_prefix, from_date, until_date, set_, ignore_deleted, offset, limit) ==
    LET within(spec) ==
            /\ Len(Segments[set_]) <= Len(Segments[spec])
            /\ SubSeq(Segments[spec], 1, Len(Segments[set_]))
                  = Segments[set_]
        hit == {k \in DOMAIN s.records :
                  /\ k[2] = metadata_prefix
                  /\ from_date.some => s.records[k].datestamp >= from_date.t
                  /\ until_date.some => s.records[k].datestamp <= until_date.t
                  /\ ignore_deleted => ~s.records[k].deleted
                  /\ set_ # NONE =>
                        /\ k[1] \in DOMAIN s.items
                        /\ \E spec \in DOMAIN s.sets :
                              <<k[1], spec>> \in s.links /\ within(spec)
                  /\ offset # NONE => IdRank(k[1]) >= IdRank(offset)}
        sorted == SortIds({k[1] : k \in hit})
    IN IF limit.some THEN Take(sorted, limit.n) ELSE sorted

\* Record.list(metadata_prefix, from_date, until_date, set_, ignore_deleted,
\* offset, limit) with a limit that is not negative: the identifiers of the
\* matching records, in order.
RecordList(s, metadata_prefix, from_date, until_date, set_, ignore_deleted, offset, limit) ==
    LET hit == {k \in DOMAIN s.records :
                  /\ k[2] = metadata_prefix
                  /\ from_date.some => s.records[k].datestamp >= from_date.t
                  /\ until_date.some => s.records[k].datestamp <= until_date.t
                  /\ ignore_deleted => ~s.records[k].deleted
                  /\ set_ # NONE =>
                        /\ k[1] \in DOMAIN s.items
                        /\ <<k[1], set_>> \in s.links
                        /\ set_ \in DOMAIN s.sets
                  /\ offset # NONE => IdRank(k[1]) >= IdRank(offset)}
        sorted == SortIds({k[1] : k \in hit})
    IN IF limit.some THEN Take(sorted, limit.n) ELSE sorted

\* request.params of a list request without resumptionToken.
ListParams(verb, metadataPrefix, set, from, until, illegal) ==
    [verb |-> verb, metadataPrefix |-> metadataPrefix, set |-> set,
     offset |-> NONE, identifier |-> NONE, from |-> from, until |-> until,
     keys |-> {"verb"}
              \cup (IF metadataPrefix # NONE THEN {"metadataPrefix"} ELSE {})
              \cup (IF set # NONE THEN {"set"} ELSE {})
              \cup (IF from # NoDate THEN {"from"} ELSE {})
              \cup (IF until # NoDate THEN {"until"} ELSE {})
              \cup (IF illegal THEN {"x"} ELSE {}),
     repeated |-> {}]

\* request.params with verb, maybe metadataPrefix and set, nothing else.
InitialParams(verb, metadataPrefix, set) ==
    ListParams(verb, metadataPrefix, set, NoDate, NoDate, FALSE)

\* The dict json.loads makes of a token that is an object.
TokenParams(tok) ==
    [verb |-> tok.verb, metadataPrefix |-> tok.metadataPrefix,
     set |-> tok.set, offset |-> tok.offset, identifier |-> NONE,
     from |-> tok.from, until |-> tok.until,
     keys |-> (TokenKeys \ tok.absent)
              \cup (IF tok.illegal THEN {"x"} ELSE {}),
     repeated |-> {}]

\* A faulty _check_params, which looks for illegal and repeated arguments
\* before it looks at verb.
CheckParamsVerbLast(params, required, allowed) ==
    IF \E p \in params.keys :
          \/ p # "verb" /\ p \notin allowed /\ p \notin required
          \/ p \in params.repeated
    THEN "BadArgument"
    ELSE IF "verb" \notin params.keys THEN "MissingVerb"
    ELSE IF "verb" \in params.repeated THEN "RepeatedVerb"
    ELSE IF required \ params.keys # {} THEN "BadArgument"
    ELSE ""

\* _check_params: the error raised, or "".
CheckParams(params, required, allowed) ==
    IF "verb" \notin params.keys THEN "MissingVerb"
    ELSE IF "verb" \in params.repeated THEN "RepeatedVerb"
    ELSE IF \E p \in params.keys :
               \/ p # "verb" /\ p \notin allowed /\ p \notin required
               \/ p \in params.repeated
    THEN "BadArgument"
    ELSE IF required \ params.keys # {} THEN "BadArgument"
    ELSE ""

\* request.params of a request that gives resumptionToken besides
\* `request_params`.
WithToken(request_params) ==
    [request_params EXCEPT !.keys = @ \cup {"resumptionToken"}]

\* A faulty _create_resumption_token, which forgets from and until.
CreateResumptionTokenNoDates(params, offset, time) ==
    [kind |-> "token", verb |-> params.verb,
     metadataPrefix |-> params.metadataPrefix, offset |-> offset,
     date |-> FormatDatestamp(time), from |-> NoDate, until |-> NoDate,
     set |-> params.set, json |-> "object",
     absent |-> {}, nonstring |-> {}, illegal |-> FALSE]

\* _create_resumption_token
CreateResumptionToken(params, offset, time) ==
    [kind |-> "token", verb |-> params.verb,
     metadataPrefix |-> params.metadataPrefix, offset |-> offset,
     date |-> FormatDatestamp(time), from |-> params.from,
     until |-> params.until, set |-> params.set, json |-> "object",
     absent |-> {}, nonstring |-> {}, illegal |-> FALSE]

\* A faulty _check_resumption_token_date, which compares with > for >=.
CheckResumptionTokenDateStrict(tok, latest) ==
    LET d == ParseDate(tok.date, 0)
    IN IF "date" \in tok.absent \/ ~d.ok THEN "InvalidResumptionToken"
       ELSE IF latest.some /\ latest.t > d.date
            THEN "ExpiredResumptionToken"
            ELSE ""

\* A faulty _check_resumption_token_date, which reads a date of day
\* granularity as the last second of the day.
CheckResumptionTokenDateEndOfDay(tok, latest) ==
    LET d == ParseDate(tok.date, DaySeconds - 1)
    IN IF "date" \in tok.absent \/ ~d.ok THEN "InvalidResumptionToken"
       ELSE IF latest.some /\ latest.t >= d.date
            THEN "ExpiredResumptionToken"
            ELSE ""

\* _check_resumption_token_date: the error raised, or "".
CheckResumptionTokenDate(tok, latest) ==
    LET d == ParseDate(tok.date, 0)
    IN IF "date" \in tok.absent \/ ~d.ok THEN "InvalidResumptionToken"
       ELSE IF latest.some /\ latest.t >= d.date
            THEN "ExpiredResumptionToken"
            ELSE ""

\* A faulty _get_resumption_token, which checks the date of a JSON object
\* before its types and its verb.
GetResumptionTokenDateFirst(request_params, tok, latest) ==
    IF CheckParams(WithToken(request_params), {"resumptionToken"}, {}) # ""
    THEN CheckParams(WithToken(request_params), {"resumptionToken"}, {})
    ELSE IF tok.json = "text" THEN "InvalidResumptionToken"
    ELSE IF tok.json # "object" THEN "InvalidResumptionToken"
    ELSE IF CheckResumptionTokenDate(tok, latest) # ""
    THEN CheckResumptionTokenDate(tok, latest)
    ELSE IF tok.nonstring # {} THEN "InvalidResumptionToken"
    ELSE IF "verb" \in tok.absent \/ tok.verb # request_params.verb
    THEN "InvalidResumptionToken"
    ELSE ""

\* _get_resumption_token for a request with the parameters
\* `request_params` besides resumptionToken = `tok`: the error raised, or "".
GetResumptionToken(request_params, tok, latest) ==
    IF CheckParams(WithToken(request_params), {"resumptionToken"}, {}) # ""
    THEN CheckParams(WithToken(request_params), {"resumptionToken"}, {})
    ELSE IF tok.json = "text" THEN "InvalidResumptionToken"
    ELSE IF tok.json # "object" THEN "InvalidResumptionToken"
    ELSE IF tok.nonstring # {} THEN "InvalidResumptionToken"
    ELSE IF "verb" \in tok.absent \/ tok.verb # request_params.verb
    THEN "InvalidResumptionToken"
    ELSE CheckResumptionTokenDate(tok, latest)

\* A faulty _get_records, which returns the identifier of the last record
\* of the page as the offset.
GetRecordsOffsetLast(s, params, ignore_deleted, limit) ==
    LET none == [error |-> "", records |-> <<>>, next_offset |-> NONE]
        dates == ParseFromAndUntil(params.from, params.until)
    IN IF ~FormatExists(s, params.metadataPrefix, ignore_deleted)
       THEN [none EXCEPT !.error = "UnsupportedMetadataFormat"]
       ELSE IF dates.error # "" THEN [none EXCEPT !.error = dates.error]
       ELSE IF "set" \in params.keys /\ DOMAIN s.sets = {}
       THEN [none EXCEPT !.error = "NoSetHierarchy"]
       ELSE LET records == RecordList(s, params.metadataPrefix,
                                      dates.from_date, dates.until_date,
                                      params.set, ignore_deleted,
                                      params.offset, Limit(limit + 1))
            IN IF records = <<>>
               THEN [none EXCEPT !.error = "NoRecordsMatch"]
               ELSE IF Len(records) = limit + 1
               THEN [none EXCEPT !.records = SubSeq(records, 1, limit),
                                 !.next_offset = records[limit]]
               ELSE [none EXCEPT !.records = records]

\* _get_records: the error, or the page and the offset of the next one.
GetRecords(s, params, ignore_deleted, limit) ==
    LET none == [error |-> "", records |-> <<>>, next_offset |-> NONE]
        dates == ParseFromAndUntil(params.from, params.until)
    IN IF ~FormatExists(s, params.metadataPrefix, ignore_deleted)
       THEN [none EXCEPT !.error = "UnsupportedMetadataFormat"]
       ELSE IF dates.error # "" THEN [none EXCEPT !.error = dates.error]
       ELSE IF "set" \in params.keys /\ DOMAIN s.sets = {}
       THEN [none EXCEPT !.error = "NoSetHierarchy"]
       ELSE LET records == RecordList(s, params.metadataPrefix,
                                      dates.from_date, dates.until_date,
                                      params.set, ignore_deleted,
                                      params.offset, Limit(limit + 1))
            IN IF records = <<>>
               THEN [none EXCEPT !.error = "NoRecordsMatch"]
               ELSE IF Len(records) = limit + 1
               THEN [none EXCEPT !.records = SubSeq(records, 1, limit),
                                 !.next_offset = records[limit + 1]]
               ELSE [none EXCEPT !.records = records]

\* A faulty _get_ignore_deleted, which never ignores.
IgnoreDeletedNever(settings) == FALSE

\* _get_ignore_deleted
IgnoreDeleted(settings) == settings.deleted_records = "no"

\* A faulty except clause, which raises the exception as it is.
ReRaiseOriginal(has_token, error) == error

\* handle_list_items, the except clause: the error raised for an
\* OaiException of _check_params or _get_records.
ReRaise(has_token, error) ==
    IF has_token THEN "InvalidResumptionToken" ELSE error

\* handle_list_items: `tok` is the presented token (NoToken in an initial
\* request), `request_params` the other parameters, `latest` what
\* Datestamp.get() returns, `time` request.time.  An OaiException of
\* _check_params or _get_records becomes InvalidResumptionToken when the
\* parameters came from a token.
HandleListItems(s, settings, verb, request_params, tok, latest, time) ==
    LET has_token == tok.kind # "none"
        token_error == IF has_token
                       THEN GetResumptionToken(request_params, tok, latest)
                       ELSE ""
        params == IF has_token THEN TokenParams(tok) ELSE request_params
        required == IF has_token THEN TokenKeys \ {"verb"}
                    ELSE {"metadataPrefix"}
        allowed == IF has_token THEN {} ELSE {"from", "until", "set"}
        checked == CheckParams(params, required, allowed)
        got == IF checked # ""
               THEN [error |-> checked, records |-> <<>>,
                     next_offset |-> NONE]
               ELSE GetRecords(s, params, IgnoreDeleted(settings),
                               settings.item_list_limit)
        base == [NoResponse EXCEPT
                   !.kind = IF has_token THEN "continuation" ELSE "initial",
                   !.verb = verb, !.presented = tok, !.time = time,
                   !.params = params, !.request = request_params]
    IN IF token_error # "" THEN [base EXCEPT !.error = token_error]
       ELSE IF got.error # ""
            THEN [base EXCEPT !.error = ReRaise(has_token, got.error)]
       ELSE [base EXCEPT
               !.records = got.records,
               !.token = IF got.next_offset # NONE
                         THEN CreateResumptionToken(params, got.next_offset,
                                                    time)
                         ELSE IF has_token THEN EmptyToken ELSE NoToken]

\* Record.earliest_datestamp: the first datestamp in ascending order, or
\* None.
RecordEarliestDatestamp(s, ignore_deleted) ==
    LET ds == {s.records[k].datestamp :
                 k \in {k \in DOMAIN s.records :
                          ignore_deleted => ~s.records[k].deleted}}
    IN IF ds = {} THEN NoDatestamp
       ELSE [some |-> TRUE,
             t |-> CHOOSE t \in ds : \A u \in ds : t <= u]

\* Format.list(identifier, ignore_deleted): the prefixes of the formats,
\* for an identifier those with a record of the item.
FormatListFor(s, identifier, ignore_deleted) ==
    {p \in FormatList(s, ignore_deleted) :
        identifier # NONE =>
            /\ <<identifier, p>> \in DOMAIN s.records
            /\ ignore_deleted => ~s.records[<<identifier, p>>].deleted}

\* _get_identifier: the error raised, or "".
GetIdentifier(s, params, ignore_deleted) ==
    IF "identifier" \notin params.keys THEN ""
    ELSE IF ~ItemExists(s, params.identifier, ignore_deleted)
         THEN "IdDoesNotExist"
         ELSE ""

\* request.params with verb and, unless NONE, identifier and
\* metadataPrefix.
VerbParams(verb, identifier, metadataPrefix) ==
    [NoParams EXCEPT
       !.verb = verb, !.identifier = identifier,
       !.metadataPrefix = metadataPrefix,
       !.keys = {"verb"}
                \cup (IF identifier # NONE THEN {"identifier"} ELSE {})
                \cup (IF metadataPrefix # NONE THEN {"metadataPrefix"}
                      ELSE {})]

\* invalid_verb_view
InvalidVerbView(params, time) ==
    [NoResponse EXCEPT
       !.kind = "invalid_verb", !.verb = params.verb, !.time = time,
       !.params = params, !.request = params,
       !.error = IF "verb" \in params.keys THEN "InvalidVerb"
                 ELSE "MissingVerb"]

\* handle_identify
HandleIdentify(s, settings, params, time) ==
    LET checked == CheckParams(params, {}, {})
        earliest == RecordEarliestDatestamp(s, IgnoreDeleted(settings))
        base == [NoResponse EXCEPT
                   !.kind = "Identify", !.verb = "Identify", !.time = time,
                   !.params = params, !.request = params]
    IN IF checked # "" THEN [base EXCEPT !.error = checked]
       ELSE [base EXCEPT
               !.earliest = IF earliest.some THEN earliest.t ELSE time]

\* A faulty handle_list_sets, which does not translate
\* ExpiredResumptionToken.
HandleListSetsNoRelabel(s, request_params, tok, latest, time) ==
    LET token_error == GetResumptionToken(request_params, tok, latest)
        checked == CheckParams(request_params, {}, {})
        base == [NoResponse EXCEPT
                   !.kind = "ListSets", !.verb = "ListSets", !.time = time,
                   !.presented = tok, !.params = request_params,
                   !.request = request_params]
    IN IF tok.kind # "none"
       THEN [base EXCEPT
               !.error = IF token_error # "" THEN token_error
                         ELSE "InvalidResumptionToken"]
       ELSE IF checked # "" THEN [base EXCEPT !.error = checked]
       ELSE IF DOMAIN s.sets = {}
            THEN [base EXCEPT !.error = "NoSetHierarchy"]
       ELSE [base EXCEPT !.sets = DOMAIN s.sets]

\* handle_list_sets for a request with the parameters `request_params`
\* besides resumptionToken = `tok` (NoToken: no resumptionToken).  A token
\* that _get_resumption_token returns is a dict with verb and date, which
\* is true.
HandleListSets(s, request_params, tok, latest, time) ==
    LET token_error == GetResumptionToken(request_params, tok, latest)
        checked == CheckParams(request_params, {}, {})
        base == [NoResponse EXCEPT
                   !.kind = "ListSets", !.verb = "ListSets", !.time = time,
                   !.presented = tok, !.params = request_params,
                   !.request = request_params]
    IN IF tok.kind # "none"
       THEN [base EXCEPT
               !.error = IF token_error = "ExpiredResumptionToken"
                         THEN "InvalidResumptionToken"
                         ELSE IF token_error # "" THEN token_error
                         ELSE "InvalidResumptionToken"]
       ELSE IF checked # "" THEN [base EXCEPT !.error = checked]
       ELSE IF DOMAIN s.sets = {}
            THEN [base EXCEPT !.error = "NoSetHierarchy"]
       ELSE [base EXCEPT !.sets = DOMAIN s.sets]

\* handle_list_metadata_formats; an empty list without identifier fails
\* the assertion.
HandleListMetadataFormats(s, settings, params, time) ==
    LET checked == CheckParams(params, {}, {"identifier"})
        ignore_deleted == IgnoreDeleted(settings)
        id_error == GetIdentifier(s, params, ignore_deleted)
        identifier == IF "identifier" \in params.keys
                      THEN params.identifier ELSE NONE
        formats == FormatListFor(s, identifier, ignore_deleted)
        base == [NoResponse EXCEPT
                   !.kind = "ListMetadataFormats",
                   !.verb = "ListMetadataFormats", !.time = time,
                   !.params = params, !.request = params]
    IN IF checked # "" THEN [base EXCEPT !.error = checked]
       ELSE IF id_error # "" THEN [base EXCEPT !.error = id_error]
       ELSE IF identifier # NONE /\ formats = {}
            THEN [base EXCEPT !.error = "NoMetadataFormats"]
       ELSE IF formats = {} THEN [base EXCEPT !.error = "AssertionError"]
       ELSE [base EXCEPT !.formats = formats]

\* _get_metadata_prefix: the error raised, or "".
GetMetadataPrefix(s, params, ignore_deleted) ==
    IF ~FormatExists(s, params.metadataPrefix, ignore_deleted)
    THEN "UnsupportedMetadataFormat"
    ELSE ""

\* A faulty handle_get_record, which looks at the format before the item.
HandleGetRecordFormatFirst(s, settings, params, time) ==
    LET checked == CheckParams(params, {"identifier", "metadataPrefix"}, {})
        ignore_deleted == IgnoreDeleted(settings)
        id_error == GetIdentifier(s, params, ignore_deleted)
        prefix_error == GetMetadataPrefix(s, params, ignore_deleted)
        key == <<params.identifier, params.metadataPrefix>>
        found == /\ key \in DOMAIN s.records
                 /\ ignore_deleted => ~s.records[key].deleted
        base == [NoResponse EXCEPT
                   !.kind = "GetRecord", !.verb = "GetRecord",
                   !.time = time, !.params = params, !.request = params]
    IN IF checked # "" THEN [base EXCEPT !.error = checked]
       ELSE IF prefix_error # "" THEN [base EXCEPT !.error = prefix_error]
       ELSE IF id_error # "" THEN [base EXCEPT !.error = id_error]
       ELSE IF ~found
            THEN [base EXCEPT !.error = "UnavailableMetadataFormat"]
       ELSE [base EXCEPT !.records = <<params.identifier>>]

\* handle_get_record; Record.list with identifier and metadata_prefix gives
\* the one record of the key, or nothing.
HandleGetRecord(s, settings, params, time) ==
    LET checked == CheckParams(params, {"identifier", "metadataPrefix"}, {})
        ignore_deleted == IgnoreDeleted(settings)
        id_error == GetIdentifier(s, params, ignore_deleted)
        prefix_error == GetMetadataPrefix(s, params, ignore_deleted)
        key == <<params.identifier, params.metadataPrefix>>
        found == /\ key \in DOMAIN s.records
                 /\ ignore_deleted => ~s.records[key].deleted
        base == [NoResponse EXCEPT
                   !.kind = "GetRecord", !.verb = "GetRecord",
                   !.time = time, !.params = params, !.request = params]
    IN IF checked # "" THEN [base EXCEPT !.error = checked]
       ELSE IF id_error # "" THEN [base EXCEPT !.error = id_error]
       ELSE IF prefix_error # "" THEN [base EXCEPT !.error = prefix_error]
       ELSE IF ~found
            THEN [base EXCEPT !.error = "UnavailableMetadataFormat"]
       ELSE [base EXCEPT !.records = <<params.identifier>>]

\* ------------------------------------------------------ provider's answers

\* provider.formats(): a mapping from prefixes to (namespace, schema).
ProviderFormats ==
    UNION {{f \in [P -> UNION {FormatDefs(p) : p \in Prefixes}] :
               \A p \in P : f[p] \in FormatDefs(p)} :
           P \in SUBSET provider.prefixes}

\* provider.get_record(identifier, prefix): None, a document valid for the
\* declared format in one of two versions, or a document in a wrong namespace.
ProviderXml(s, prefix) ==
    LET f == IF prefix \in DOMAIN s.formats THEN s.formats[prefix]
             ELSE CHOOSE d \in FormatDefs(prefix) : TRUE
    IN {XmlNull, XmlDoc("urn:wrong", f.schema, "x")}
       \cup {XmlDoc(f.namespace, f.schema, b) : b \in provider.bodies}

\* ------------------------------------------------------- initialization

\* ensure_oai_dc_exists
EnsureOaiDcExists(s) ==
    IF ~FormatExists(s, "oai_dc", FALSE)
    THEN [s EXCEPT !.formats = Put(@, "oai_dc",
            [namespace |-> OAI_DC_NS, schema |-> OAI_DC_XSD,
             deleted |-> FALSE])]
    ELSE s

\* The state after create_engine and ensure_oai_dc_exists on an empty
\* database, for each deleted_records policy.
Boot ==
    /\ now = 0
    /\ db = EnsureOaiDcExists(EmptyStore)
    /\ tx = db
    /\ run = Idle
    /\ cfg \in [deleted_records : {"no", "persistent"},
                 item_list_limit : PageLimits]
    /\ req = NoRequest
    /\ token = NoToken
    /\ resp = NoResponse
    /\ hist = NoHistory

\* A provider of one item in two formats.
Init ==
    /\ Boot
    /\ provider = [prefixes |-> Prefixes, identifiers |-> {"i1"},
                   specs |-> SetSpecs, bodies |-> {"x", "y"},
                   dry_run |-> BOOLEAN, since |-> BOOLEAN,
                   raises |-> BOOLEAN, texts |-> {"ascii"}]

Purge == cfg.deleted_records = "no"

\* The history of the held token after a step that leaves the committed
\* database as `d`.
Tracked(d) ==
    IF token.kind # "token" THEN hist
    ELSE [changed |-> hist.changed \/ d # db,
          mutated |-> \/ hist.mutated
                      \/ d.records # db.records
                      \/ ~(DOMAIN db.formats \subseteq DOMAIN d.formats)
                      \/ ~(DOMAIN db.items \subseteq DOMAIN d.items),
          relinked |-> hist.relinked \/ d.links # db.links]

\* datestamp_now() moves on.
Tick ==
    /\ now < MaxTime
    /\ now' = now + 1
    /\ resp' = NoResponse
    /\ UNCHANGED <<db, tx, run, cfg, provider, req, token, hist>>

\* The engine or the importer starts again: ensure_oai_dc_exists and commit.
Reinitialize ==
    /\ run.pc = "idle"
    /\ db' = EnsureOaiDcExists(db)
    /\ tx' = db'
    /\ hist' = Tracked(db')
    /\ resp' = NoResponse
    /\ UNCHANGED <<now, run, cfg, provider, req, token>>

\* harvest.update is called: update(provider, since, purge, dry_run).
StartRun ==
    /\ run.pc = "idle"
    /\ \E dry_run \in provider.dry_run, since \in provider.since :
          run' = [Idle EXCEPT !.pc = "formats", !.dry_run = dry_run,
                              !.since = since]
    /\ resp' = NoResponse
    /\ UNCHANGED <<now, db, tx, cfg, provider, req, token, hist>>

\* models.commit() or models.rollback() at the end of a unit of the run.
EndUnit(s, dry_run) ==
    IF dry_run THEN tx' = db /\ db' = db
    ELSE tx' = s /\ db' = s

\* update_formats: provider.formats() raises or answers; an exception rolls
\* back and ends the run with HarvestError.
UpdateFormats ==
    /\ run.pc = "formats"
    /\ \E raises \in provider.raises, text \in provider.texts,
          new_formats \in ProviderFormats :
          LET r == IF raises THEN Fail(tx)
                   ELSE UpdateFormatsWrites(tx, new_formats, Purge,
                                            run.dry_run, now)
              thrown == IF raises THEN text ELSE "ascii"
          IN IF ~r.ok
             THEN /\ tx' = db
                  /\ db' = db
                  /\ run' = Aborted(StepError(thrown))
             ELSE /\ EndUnit(r.s, run.dry_run)
                  /\ run' = [run EXCEPT !.pc = "items",
                                        !.prefixes = DOMAIN new_formats]
    /\ hist' = Tracked(db')
    /\ resp' = NoResponse
    /\ UNCHANGED <<now, cfg, provider, req, token>>

\* update_items
UpdateItems ==
    /\ run.pc = "items"
    /\ \E raises \in provider.raises, text \in provider.texts,
          new_identifiers \in SUBSET provider.identifiers :
          IF raises
          THEN tx' = db /\ db' = db /\ run' = Aborted(StepError(text))
          ELSE /\ EndUnit(UpdateItemsWrites(tx, new_identifiers, Purge,
                                            run.dry_run, now), run.dry_run)
               /\ run' = [run EXCEPT !.pc = "records",
                                     !.identifiers = new_identifiers,
                                     !.todo = new_identifiers]
    /\ hist' = Tracked(db')
    /\ resp' = NoResponse
    /\ UNCHANGED <<now, cfg, provider, req, token>>

\* update_records, the head of the loop over identifiers: the item is
\* skipped (has_changed is false), or update_sets runs; when update_sets or
\* has_changed raises the loop continues with the next identifier, unless
\* the message of log.exception cannot be formatted: that exception leaves
\* update, and the session ends with the process.
UpdateItemSetsWith(keep) ==
    /\ run.pc = "records"
    /\ run.cur = NONE
    /\ \E identifier \in run.todo :
          \/ /\ run.since
             /\ run' = [run EXCEPT !.todo = @ \ {identifier}]
             /\ UNCHANGED <<tx, db>>
          \/ \E raises \in provider.raises, text \in provider.texts,
                sets \in SUBSET provider.specs :
                LET r == UpdateSets(tx, identifier, raises, sets, run.dry_run)
                IN IF ~r.ok /\ FormatException(text) # ""
                   THEN /\ tx' = db
                        /\ db' = db
                        /\ run' = Aborted(FormatException(text))
                   ELSE /\ tx' = r.s
                        /\ db' = db
                        /\ run' = IF r.ok
                                  THEN [run EXCEPT
                                          !.todo = @ \ {identifier},
                                          !.cur = identifier,
                                          !.todoPrefixes = run.prefixes,
                                          !.sets = IF keep THEN sets ELSE @]
                                  ELSE [run EXCEPT !.todo = @ \ {identifier}]
    /\ hist' = Tracked(db')
    /\ resp' = NoResponse
    /\ UNCHANGED <<now, cfg, provider, req, token>>

UpdateItemSets == UpdateItemSetsWith(FALSE)

\* The same step, with the answer of get_sets remembered.
UpdateItemSetsKept == UpdateItemSetsWith(TRUE)

\* update_records, one pass of the loop over prefixes: get_record, the write,
\* and commit; or the exception and rollback, after which the loop goes on
\* unless the message of log.exception cannot be formatted.  With `keep`
\* the answer of get_record is remembered in run.got.
UpdateRecordWith(dry_run, keep) ==
    /\ run.pc = "records"
    /\ run.cur # NONE
    /\ \E prefix \in run.todoPrefixes :
          \E raises \in provider.raises, text \in provider.texts,
             xml \in ProviderXml(tx, prefix) :
             LET r == UpdateRecordWrites(tx, run.cur, prefix, raises, xml,
                                         dry_run, now)
                 thrown == IF raises THEN text ELSE "ascii"
             IN /\ IF ~r.ok THEN tx' = db /\ db' = db
                   ELSE EndUnit(r.s, dry_run)
                /\ run' = IF ~r.ok /\ FormatException(thrown) # ""
                          THEN Aborted(FormatException(thrown))
                          ELSE [run EXCEPT
                      !.todoPrefixes = @ \ {prefix},
                      !.cur = IF run.todoPrefixes = {prefix} THEN NONE ELSE @,
                      !.got = IF keep /\ ~raises
                              THEN Put(@, <<run.cur, prefix>>, xml) ELSE @]
    /\ hist' = Tracked(db')
    /\ resp' = NoResponse
    /\ UNCHANGED <<now, cfg, provider, req, token>>

\* A faulty update, which calls update_records without its dry_run argument.
UpdateRecordDryRunDropped == UpdateRecordWith(FALSE, FALSE)

UpdateRecord == UpdateRecordWith(run.dry_run, FALSE)

\* The same step, with the answer of get_record remembered.
UpdateRecordKept == UpdateRecordWith(run.dry_run, TRUE)

\* update_records, after the loops: the closing rollback; update returns.
FinishRun ==
    /\ run.pc = "records"
    /\ run.cur = NONE
    /\ run.todo = {}
    /\ tx' = db
    /\ run' = [Idle EXCEPT !.completed = TRUE]
    /\ resp' = NoResponse
    /\ UNCHANGED <<now, db, cfg, provider, req, token, hist>>


\* The token the client holds after a response, and its history.
Held(r) == IF r.token.kind = "token" THEN r.token ELSE token

HeldHistory(r) == IF r.token.kind = "token" THEN NoHistory ELSE hist

\* A ListRecords or ListIdentifiers request with metadataPrefix and maybe
\* set, whose request.time is `time`: the queries and the response.
ListInitialAt(time) ==
    /\ \E verb \in ListVerbs, metadataPrefix \in provider.prefixes,
          set \in {NONE} \cup provider.specs, latest \in DatestampGet(db) :
          resp' = HandleListItems(db, cfg, verb,
                                  InitialParams(verb, metadataPrefix, set),
                                  NoToken, latest, time)
    /\ token' = Held(resp')
    /\ hist' = HeldHistory(resp')
    /\ UNCHANGED <<now, db, tx, run, cfg, provider>>

\* A request that presents the held token.
ListContinueAt(time) ==
    /\ token.kind = "token"
    /\ \E verb \in ListVerbs, latest \in DatestampGet(db) :
          resp' = [HandleListItems(db, cfg, verb,
                                   InitialParams(verb, NONE, NONE),
                                   token, latest, time)
                   EXCEPT !.hist = hist]
    /\ token' = Held(resp')
    /\ hist' = HeldHistory(resp')
    /\ UNCHANGED <<now, db, tx, run, cfg, provider>>

\* The requests handled in one step while no importer runs (the committed
\* states between the units of a run are also the final states of runs
\* that skip the remaining items).
ListInitial ==
    /\ run.pc = "idle"
    /\ ListInitialAt(now)
    /\ UNCHANGED req

ListContinue ==
    /\ run.pc = "idle"
    /\ ListContinueAt(now)
    /\ UNCHANGED req

Next ==
    \/ Tick
    \/ Reinitialize
    \/ StartRun
    \/ UpdateFormats
    \/ UpdateItems
    \/ UpdateItemSets
    \/ UpdateRecord
    \/ FinishRun

Spec == Init /\ [][Next]_vars

\* The importer and the engine, one after the other: a provider of two
\* items in oai_dc which never raises.
InitEngine ==
    /\ Boot
    /\ provider = [prefixes |-> {"oai_dc"}, identifiers |-> Identifiers,
                   specs |-> SetSpecs, bodies |-> {"x", "y"},
                   dry_run |-> {FALSE}, since |-> BOOLEAN,
                   raises |-> {FALSE}, texts |-> {"ascii"}]

NextEngine ==
    \/ Tick
    \/ StartRun
    \/ UpdateFormats
    \/ UpdateItems
    \/ UpdateItemSets
    \/ UpdateRecord
    \/ FinishRun
    \/ ListInitial
    \/ ListContinue

SpecEngine == InitEngine /\ [][NextEngine]_vars

\* ------------------------------------ the importer and the engine interleaved

\* oai_view: request.time = datestamp_now(), before any query.
RequestBegin ==
    /\ req.pc = "none"
    /\ req' = [pc |-> "timed", time |-> now]
    /\ resp' = NoResponse
    /\ UNCHANGED <<now, db, tx, run, cfg, provider, token, hist>>

\* The rest of the request: the queries on the committed database and the
\* response, with the token dated request.time.
ServeInitial ==
    /\ req.pc = "timed"
    /\ ListInitialAt(req.time)
    /\ req' = NoRequest

ServeContinue ==
    /\ req.pc = "timed"
    /\ ListContinueAt(req.time)
    /\ req' = NoRequest

\* update_items up to its last write: the writes carry datestamp_now() of
\* the moment they are made and stay in the session.
UpdateItemsWrite ==
    /\ run.pc = "items"
    /\ \E raises \in provider.raises, text \in provider.texts,
          new_identifiers \in SUBSET provider.identifiers :
          IF raises
          THEN tx' = db /\ run' = Aborted(StepError(text))
          ELSE /\ tx' = UpdateItemsWrites(tx, new_identifiers, Purge,
                                          run.dry_run, now)
               /\ run' = [run EXCEPT !.pc = "items_commit",
                                     !.identifiers = new_identifiers,
                                     !.todo = new_identifiers]
    /\ resp' = NoResponse
    /\ UNCHANGED <<now, db, cfg, provider, req, token, hist>>

\* update_items, models.commit() or models.rollback().
UpdateItemsCommit ==
    /\ run.pc = "items_commit"
    /\ EndUnit(tx, run.dry_run)
    /\ run' = [run EXCEPT !.pc = "records"]
    /\ hist' = Tracked(db')
    /\ resp' = NoResponse
    /\ UNCHANGED <<now, cfg, provider, req, token>>

\* update_records, one pass of the loop over prefixes up to the write.
UpdateRecordWrite ==
    /\ run.pc = "records"
    /\ run.cur # NONE
    /\ \E prefix \in run.todoPrefixes :
          /\ \E raises \in provider.raises, text \in provider.texts,
                xml \in ProviderXml(tx, prefix) :
                LET r == UpdateRecordWrites(tx, run.cur, prefix, raises, xml,
                                            run.dry_run, now)
                IN IF ~r.ok /\ raises /\ FormatException(text) # ""
                   THEN tx' = db /\ run' = Aborted(FormatException(text))
                   ELSE IF ~r.ok
                   THEN tx' = db /\ run' = [run EXCEPT
                            !.todoPrefixes = @ \ {prefix},
                            !.cur = IF run.todoPrefixes = {prefix}
                                    THEN NONE ELSE @]
                   ELSE tx' = r.s /\ run' = [run EXCEPT
                            !.pc = "record_commit",
                            !.todoPrefixes = @ \ {prefix},
                            !.cur = IF run.todoPrefixes = {prefix}
                                    THEN NONE ELSE @]
    /\ resp' = NoResponse
    /\ UNCHANGED <<now, db, cfg, provider, req, token, hist>>

\* update_records, models.commit() or models.rollback() after the write.
UpdateRecordCommit ==
    /\ run.pc = "record_commit"
    /\ EndUnit(tx, run.dry_run)
    /\ run' = [run EXCEPT !.pc = "records"]
    /\ hist' = Tracked(db')
    /\ resp' = NoResponse
    /\ UNCHANGED <<now, cfg, provider, req, token>>

\* A provider of two items in oai_dc, one document each, which never raises.
InitRace ==
    /\ Boot
    /\ provider = [prefixes |-> {"oai_dc"}, identifiers |-> Identifiers,
                   specs |-> SetSpecs, bodies |-> {"x"},
                   dry_run |-> {FALSE}, since |-> {FALSE},
                   raises |-> {FALSE}, texts |-> {"ascii"}]

NextRace ==
    \/ Tick
    \/ StartRun
    \/ UpdateFormats
    \/ UpdateItemsWrite
    \/ UpdateItemsCommit
    \/ UpdateItemSets
    \/ UpdateRecordWrite
    \/ UpdateRecordCommit
    \/ FinishRun
    \/ RequestBegin
    \/ ServeInitial
    \/ ServeContinue

SpecRace == InitRace /\ [][NextRace]_vars

\* ------------------------------------------------- the store, call by call

\* A call on the session: its writes stay in the session until commit.
StoreCall(op, s) ==
    /\ tx' = s
    /\ req' = [pc |-> op, time |-> now]
    /\ resp' = NoResponse
    /\ UNCHANGED <<now, db, run, cfg, provider, token, hist>>

\* Datestamp.create(datestamp_now()): a row is added (datestamp is the
\* primary key).
DatestampCreateCall ==
    /\ now \notin tx.datestamps
    /\ StoreCall("Datestamp.create", [tx EXCEPT !.datestamps = @ \cup {now}])

DatestampUpdateCall ==
    StoreCall("Datestamp.update", DatestampUpdate(tx, now))

FormatCreateOrUpdateCall ==
    \E prefix \in provider.prefixes :
        \E f \in FormatDefs(prefix) :
            LET r == FormatCreateOrUpdate(tx, prefix, f.namespace, f.schema, now)
            IN r.ok /\ StoreCall("Format.create_or_update", r.s)

FormatMarkAsDeletedCall ==
    \E prefix \in DOMAIN tx.formats :
        StoreCall("Format.mark_as_deleted", FormatMarkAsDeleted(tx, prefix, now))

ItemCreateOrUpdateCall ==
    \E identifier \in provider.identifiers :
        StoreCall("Item.create_or_update", ItemCreateOrUpdate(tx, identifier))

ItemMarkAsDeletedCall ==
    \E identifier \in DOMAIN tx.items :
        StoreCall("Item.mark_as_deleted", ItemMarkAsDeleted(tx, identifier, now))

RecordCreateOrUpdateCall ==
    \E identifier \in provider.identifiers, prefix \in provider.prefixes :
        \E xml \in ProviderXml(tx, prefix) \ {XmlNull} :
            LET r == RecordCreateOrUpdate(tx, identifier, prefix, xml, now)
            IN r.ok /\ StoreCall("Record.create_or_update", r.s)

RecordMarkAsDeletedCall ==
    \E identifier \in provider.identifiers, prefix \in provider.prefixes :
        StoreCall("Record.mark_as_deleted",
                  RecordMarkAsDeleted(tx, identifier, prefix, now))

PurgeDeletedCall ==
    StoreCall("purge_deleted", PurgeDeleted(tx, now))

\* models.commit()
Commit ==
    /\ db' = tx
    /\ req' = [pc |-> "commit", time |-> now]
    /\ resp' = NoResponse
    /\ UNCHANGED <<now, tx, run, cfg, provider, token, hist>>

\* models.rollback()
Rollback ==
    /\ tx' = db
    /\ req' = [pc |-> "rollback", time |-> now]
    /\ resp' = NoResponse
    /\ UNCHANGED <<now, db, run, cfg, provider, token, hist>>

\* One item, one format, two documents.
InitStore ==
    /\ Boot
    /\ provider = [prefixes |-> {"oai_dc"}, identifiers |-> {"i1"},
                   specs |-> {}, bodies |-> {"x", "y"},
                   dry_run |-> {FALSE}, since |-> {FALSE},
                   raises |-> {FALSE}, texts |-> {"ascii"}]

NextStore ==
    \/ Tick
    \/ DatestampCreateCall
    \/ DatestampUpdateCall
    \/ FormatCreateOrUpdateCall
    \/ FormatMarkAsDeletedCall
    \/ ItemCreateOrUpdateCall
    \/ ItemMarkAsDeletedCall
    \/ RecordCreateOrUpdateCall
    \/ RecordMarkAsDeletedCall
    \/ PurgeDeletedCall
    \/ Commit
    \/ Rollback

SpecStore == InitStore /\ [][NextStore]_vars

\* The store right after create_engine (all tables empty, as in the tests of
\* kuha.models) with a format that the provider declares in two namespaces:
\* one item, one document.
InitFormats ==
    /\ now = 0
    /\ db = EmptyStore
    /\ tx = db
    /\ run = Idle
    /\ cfg = [deleted_records |-> "persistent", item_list_limit |-> 1]
    /\ req = NoRequest
    /\ token = NoToken
    /\ resp = NoResponse
    /\ hist = NoHistory
    /\ provider = [prefixes |-> {"ddi"}, identifiers |-> {"i1"},
                   specs |-> {}, bodies |-> {"x"},
                   dry_run |-> {FALSE}, since |-> {FALSE},
                   raises |-> {FALSE}, texts |-> {"ascii"}]

SpecFormats == InitFormats /\ [][NextStore]_vars

\* The importer with a provider whose get_sets answers any list of the
\* specs a and a:b, for one item in oai_dc.
InitSets ==
    /\ Boot
    /\ provider = [prefixes |-> {"oai_dc"}, identifiers |-> {"i1"},
                   specs |-> HierarchySpecs, bodies |-> {"x"},
                   dry_run |-> {FALSE}, since |-> BOOLEAN,
                   raises |-> {FALSE}, texts |-> {"ascii"}]

SpecSets == InitSets /\ [][Next]_vars

\* ------------------------------------------------------- the other verbs

\* A request of a verb without resumption token, answered in one step while
\* no importer runs; the client's token is not touched.
Answer(r) ==
    /\ run.pc = "idle"
    /\ resp' = r
    /\ UNCHANGED <<now, db, tx, run, cfg, provider, req, token, hist>>

Identify == Answer(HandleIdentify(db, cfg, VerbParams("Identify", NONE, NONE), now))

ListMetadataFormats ==
    \E identifier \in {NONE} \cup Identifiers :
        Answer(HandleListMetadataFormats(
                   db, cfg, VerbParams("ListMetadataFormats", identifier, NONE),
                   now))

GetRecord ==
    \E identifier \in Identifiers, metadataPrefix \in Prefixes :
        Answer(HandleGetRecord(
                   db, cfg, VerbParams("GetRecord", identifier, metadataPrefix),
                   now))

\* The deployment is stopped, deleted_records is changed in the settings,
\* and the engine and the importer start again on the same database.
Reconfigure ==
    /\ run.pc = "idle"
    /\ \E policy \in {"no", "transient", "persistent"} \ {cfg.deleted_records} :
          cfg' = [cfg EXCEPT !.deleted_records = policy]
    /\ db' = EnsureOaiDcExists(db)
    /\ tx' = db'
    /\ hist' = Tracked(db')
    /\ resp' = NoResponse
    /\ UNCHANGED <<now, run, provider, req, token>>

\* Each deleted_records policy, over a provider of one item in two formats
\* which never raises; the item is too few for a second page.
InitVerbs ==
    /\ now = 0
    /\ db = EnsureOaiDcExists(EmptyStore)
    /\ tx = db
    /\ run = Idle
    /\ cfg \in [deleted_records : {"no", "transient", "persistent"},
                 item_list_limit : PageLimits]
    /\ req = NoRequest
    /\ token = NoToken
    /\ resp = NoResponse
    /\ hist = NoHistory
    /\ provider = [prefixes |-> Prefixes, identifiers |-> {"i1"},
                   specs |-> {}, bodies |-> {"x"},
                   dry_run |-> {FALSE}, since |-> {FALSE},
                   raises |-> {FALSE}, texts |-> {"ascii"}]

NextVerbs ==
    \/ Tick
    \/ StartRun
    \/ UpdateFormats
    \/ UpdateItems
    \/ UpdateItemSets
    \/ UpdateRecord
    \/ FinishRun
    \/ Reconfigure
    \/ ListInitial
    \/ Identify
    \/ ListMetadataFormats
    \/ GetRecord

SpecVerbs == InitVerbs /\ [][NextVerbs]_vars

\* Runs that fail or succeed, dry or not, under each deleted_records
\* policy, over a provider which may offer no format or a format with an
\* invalid prefix; ListMetadataFormats is requested between the runs.
InitVisible ==
    /\ now = 0
    /\ db = EnsureOaiDcExists(EmptyStore)
    /\ tx = db
    /\ run = Idle
    /\ cfg \in [deleted_records : {"no", "transient", "persistent"},
                 item_list_limit : {1}]
    /\ req = NoRequest
    /\ token = NoToken
    /\ resp = NoResponse
    /\ hist = NoHistory
    /\ provider = [prefixes |-> Prefixes \cup {"d d i"},
                   identifiers |-> {"i1"},
                   specs |-> {}, bodies |-> {"x"},
                   dry_run |-> BOOLEAN, since |-> {FALSE},
                   raises |-> BOOLEAN, texts |-> {"ascii"}]

NextVisible ==
    \/ Tick
    \/ StartRun
    \/ UpdateFormats
    \/ UpdateItems
    \/ UpdateItemSets
    \/ UpdateRecord
    \/ FinishRun
    \/ Reconfigure
    \/ ListMetadataFormats

SpecVisible == InitVisible /\ [][NextVisible]_vars

\* ------------------------------------------- runs that remember the answers

\* A provider of two items in two formats, which never raises; update is
\* called without since.
InitFull ==
    /\ Boot
    /\ provider = [prefixes |-> Prefixes, identifiers |-> Identifiers,
                   specs |-> {}, bodies |-> {"x"},
                   dry_run |-> {FALSE}, since |-> {FALSE},
                   raises |-> {FALSE}, texts |-> {"ascii"}]

NextFull ==
    \/ Tick
    \/ StartRun
    \/ UpdateFormats
    \/ UpdateItems
    \/ UpdateItemSets
    \/ UpdateRecordKept
    \/ FinishRun

SpecFull == InitFull /\ [][NextFull]_vars

\* ------------------------------- a provider with a state, harvested with since

\* What the provider holds: `listed` is what identifiers() returns and
\* `formats` what formats() returns; `content` tells for which (identifier,
\* prefix) get_record returns a document.  The first run finds the item and
\* both formats; afterwards the item and the formats come and go, while
\* `content` never changes, so that has_changed is false for every since.
ProviderAnswer(k) ==
    IF provider.content[k]
    THEN XmlDoc(provider.formats[k[2]].namespace,
                provider.formats[k[2]].schema, "x")
    ELSE XmlNull

InitIncremental ==
    /\ Boot
    /\ \E content \in [{"i1"} \X Prefixes -> BOOLEAN] :
          provider = [prefixes |-> Prefixes, identifiers |-> {"i1"},
                      specs |-> {}, bodies |-> {"x"},
                      dry_run |-> {FALSE}, since |-> BOOLEAN,
                      raises |-> {FALSE}, texts |-> {"ascii"},
                      listed |-> {"i1"},
                      formats |-> [p \in Prefixes |->
                                     CHOOSE d \in FormatDefs(p) : TRUE],
                      content |-> content]

\* Items and formats come and go at the provider between two runs.
ProviderEdit ==
    /\ run.pc = "idle"
    /\ run.completed
    /\ \E listed \in SUBSET provider.identifiers, formats \in ProviderFormats :
          /\ formats # EmptyFn
          /\ <<listed, formats>> # <<provider.listed, provider.formats>>
          /\ provider' = [provider EXCEPT !.listed = listed,
                                          !.formats = formats]
    /\ resp' = NoResponse
    /\ UNCHANGED <<now, db, tx, run, cfg, req, token, hist>>

\* importer main: since is the timestamp written by a run that returned.
StartRunStamped ==
    /\ StartRun
    /\ run'.since => run.completed

\* update_formats on what formats() returns.
UpdateFormatsListed ==
    /\ UpdateFormats
    /\ run'.pc = "items"
    /\ run'.prefixes = DOMAIN provider.formats
    /\ \A p \in run'.prefixes :
          /\ db'.formats[p].namespace = provider.formats[p].namespace
          /\ db'.formats[p].schema = provider.formats[p].schema

\* update_items on what identifiers() returns.
UpdateItemsListed ==
    /\ UpdateItems
    /\ run'.identifiers = provider.listed

\* update_records, the head of the loop, has_changed being false.
UpdateItemSetsUnchanged ==
    /\ UpdateItemSets
    /\ run.since => run'.cur = NONE

\* update_records, one pass of the loop over prefixes, on what get_record
\* returns.
UpdateRecordListed ==
    /\ UpdateRecordKept
    /\ \A k \in DOMAIN run'.got : run'.got[k] = ProviderAnswer(k)

NextIncremental ==
    \/ Tick
    \/ ProviderEdit
    \/ StartRunStamped
    \/ UpdateFormatsListed
    \/ UpdateItemsListed
    \/ UpdateItemSetsUnchanged
    \/ UpdateRecordListed
    \/ FinishRun

SpecIncremental == InitIncremental /\ [][NextIncremental]_vars

\* ---------------------------------------------- runs that are made twice

\* The provider holds one item in up to two formats; update is called
\* without since.  `repeat` tells that the run in hand, or the last one, was
\* started after a run had returned and the provider had not changed
\* since that run began; `baseline` is the database at its start.
InitRepeat ==
    /\ Boot
    /\ provider = [prefixes |-> Prefixes, identifiers |-> {"i1"},
                   specs |-> {}, bodies |-> {"x"},
                   dry_run |-> {FALSE}, since |-> {FALSE},
                   raises |-> {FALSE}, texts |-> {"ascii"},
                   listed |-> {"i1"},
                   formats |-> [p \in Prefixes |->
                                  CHOOSE d \in FormatDefs(p) : TRUE],
                   content |-> [k \in {"i1"} \X Prefixes |-> TRUE],
                   repeat |-> FALSE, baseline |-> EmptyStore]

\* Between two runs the provider changes: its items, its formats, or the
\* pairs for which it has a document.
ProviderEditContent ==
    /\ run.pc = "idle"
    /\ \E listed \in SUBSET provider.identifiers, formats \in ProviderFormats,
          content \in [{"i1"} \X Prefixes -> BOOLEAN] :
          /\ formats # EmptyFn
          /\ <<listed, formats, content>>
                # <<provider.listed, provider.formats, provider.content>>
          /\ provider' = [provider EXCEPT !.listed = listed,
                                          !.formats = formats,
                                          !.content = content,
                                          !.repeat = FALSE,
                                          !.baseline = EmptyStore]
    /\ run' = Idle
    /\ resp' = NoResponse
    /\ UNCHANGED <<now, db, tx, cfg, req, token, hist>>

\* update is called for a provider that has changed since the last run
\* that returned, or for the first time.
StartFirst ==
    /\ ~run.completed
    /\ StartRun

\* update is called again after it has returned, the provider being as it
\* was.
StartRepeat ==
    /\ run.pc = "idle"
    /\ run.completed
    /\ run' = [Idle EXCEPT !.pc = "formats"]
    /\ provider' = [provider EXCEPT !.repeat = TRUE, !.baseline = db]
    /\ resp' = NoResponse
    /\ UNCHANGED <<now, db, tx, cfg, req, token, hist>>

NextRepeat ==
    \/ Tick
    \/ ProviderEditContent
    \/ StartFirst
    \/ StartRepeat
    \/ UpdateFormatsListed
    \/ UpdateItemsListed
    \/ UpdateItemSets
    \/ UpdateRecordListed
    \/ FinishRun

SpecRepeat == InitRepeat /\ [][NextRepeat]_vars

\* --------------------------------------- a provider that lists identifiers twice

\* identifiers() returns the sequence `sequence`, which may hold an
\* identifier several times and in several types.
InitDuplicates ==
    /\ Boot
    /\ provider = [prefixes |-> {"oai_dc"}, identifiers |-> Identifiers,
                   specs |-> {}, bodies |-> {"x"},
                   dry_run |-> {FALSE}, since |-> {FALSE},
                   raises |-> {FALSE}, texts |-> {"ascii"}, sequence |-> << >>]

\* While no importer runs the provider's list of identifiers grows by one,
\* or is emptied.
SequenceEdit ==
    /\ run.pc = "idle"
    /\ \/ /\ Len(provider.sequence) < MaxListed
          /\ \E raw \in RawIdentifiers :
                provider' = [provider EXCEPT !.sequence = Append(@, raw)]
       \/ /\ provider.sequence # << >>
          /\ provider' = [provider EXCEPT !.sequence = << >>]
    /\ resp' = NoResponse
    /\ UNCHANGED <<now, db, tx, run, cfg, req, token, hist>>

\* update_items on the sequence identifiers() returns.
UpdateItemsSequence ==
    /\ UpdateItems
    /\ run'.identifiers = NewIdentifiers(provider.sequence)

NextDuplicates ==
    \/ Tick
    \/ SequenceEdit
    \/ StartRun
    \/ UpdateFormats
    \/ UpdateItemsSequence
    \/ UpdateItemSets
    \/ UpdateRecord
    \/ FinishRun

SpecDuplicates == InitDuplicates /\ [][NextDuplicates]_vars

\* ------------------------------------- list requests with any parameters

Garbage == [shape |-> "garbage", value |-> 0]

DayText(d) == [shape |-> "day", value |-> d]

\* The values of date in the tokens a client presents.
TokenDates ==
    {FormatDatestamp(t) : t \in 0..MaxTime}
    \cup {DayText(0), DayText(1), NoDate, Garbage}

\* The (from, until) pairs of requests and tokens, besides (None, None):
\* one bound, both bounds of a day, a day that has not begun, two
\* granularities, from after until, and texts that are no datestamps.
DatePairs ==
    {<<FormatDatestamp(0), NoDate>>, <<NoDate, FormatDatestamp(0)>>,
     <<DayText(0), DayText(0)>>, <<DayText(1), NoDate>>,
     <<DayText(0), FormatDatestamp(0)>>,
     <<FormatDatestamp(MaxTime), FormatDatestamp(0)>>,
     <<Garbage, NoDate>>, <<NoDate, Garbage>>}

\* request.params of the list requests without resumptionToken.
ListRequests ==
    {ListParams(verb, "oai_dc", set, d[1], d[2], FALSE) :
        verb \in ListVerbs, set \in {NONE} \cup SetSpecs,
        d \in DatePairs \cup {<<NoDate, NoDate>>}}
    \cup {ListParams(verb, metadataPrefix, NONE, NoDate, NoDate, FALSE) :
            verb \in ListVerbs, metadataPrefix \in {NONE, "ddi"}}
    \cup {ListParams(verb, "oai_dc", NONE, NoDate, NoDate, TRUE) :
            verb \in ListVerbs}

\* The token _create_resumption_token makes for a request with verb and
\* metadataPrefix = oai_dc, with the date a client gives it.
Canonical(verb, offset, date) ==
    [CreateResumptionToken(InitialParams(verb, "oai_dc", NONE), offset, 0)
        EXCEPT !.date = date]

\* `tok` with one thing wrong that _get_resumption_token or _check_params
\* look at.
Malformed(tok) ==
    {[tok EXCEPT !.json = "text"], [tok EXCEPT !.json = "array"],
     [tok EXCEPT !.illegal = TRUE]}
    \cup {[tok EXCEPT !.absent = {k}] : k \in TokenKeys}
    \cup {[tok EXCEPT !.nonstring = {k}] : k \in TokenKeys}

\* `tok` with another value for one of the parameters _get_records uses.
Altered(tok) ==
    {[tok EXCEPT !.metadataPrefix = p] : p \in {NONE, "ddi"}}
    \cup {[tok EXCEPT !.set = set] : set \in SetSpecs}
    \cup {[tok EXCEPT !.offset = NONE]}
    \cup {[tok EXCEPT !.from = d[1], !.until = d[2]] : d \in DatePairs}

\* The values of resumptionToken a client presents: the tokens of the
\* engine with any date, and those for ListRecords and offset i1 with one
\* thing wrong or altered.
PresentedTokens ==
    {Canonical(verb, offset, date) :
        verb \in ListVerbs, offset \in Identifiers, date \in TokenDates}
    \cup UNION {Malformed(c) \cup Altered(c) :
                  c \in {Canonical("ListRecords", "i1", date) :
                            date \in TokenDates}}

\* A provider of two items in oai_dc, which never raises; deleted records
\* are kept.
InitTokens ==
    /\ Boot
    /\ cfg.deleted_records = "persistent"
    /\ provider = [prefixes |-> {"oai_dc"}, identifiers |-> Identifiers,
                   specs |-> SetSpecs, bodies |-> {"x"},
                   dry_run |-> {FALSE}, since |-> {FALSE},
                   raises |-> {FALSE}, texts |-> {"ascii"}]

\* A ListRecords or ListIdentifiers request without resumptionToken, handled
\* when the response to the request before has been sent.
ListRequest ==
    /\ run.pc = "idle"
    /\ resp = NoResponse
    /\ \E params \in ListRequests, latest \in DatestampGet(db) :
          resp' = HandleListItems(db, cfg, params.verb, params, NoToken,
                                  latest, now)
    /\ UNCHANGED <<now, db, tx, run, cfg, provider, req, token, hist>>

\* A request with verb and resumptionToken, and maybe metadataPrefix too.
ListPresented ==
    /\ run.pc = "idle"
    /\ resp = NoResponse
    /\ \E verb \in ListVerbs, tok \in PresentedTokens,
          latest \in DatestampGet(db) :
          \/ resp' = HandleListItems(db, cfg, verb,
                                     InitialParams(verb, NONE, NONE),
                                     tok, latest, now)
          \/ /\ tok = Canonical(verb, "i1", FormatDatestamp(now))
             /\ resp' = HandleListItems(db, cfg, verb,
                                        InitialParams(verb, "oai_dc", NONE),
                                        tok, latest, now)
    /\ UNCHANGED <<now, db, tx, run, cfg, provider, req, token, hist>>

NextTokens ==
    \/ Tick
    \/ StartRun
    \/ UpdateFormats
    \/ UpdateItems
    \/ UpdateItemSets
    \/ UpdateRecord
    \/ FinishRun
    \/ ListRequest
    \/ ListPresented

SpecTokens == InitTokens /\ [][NextTokens]_vars

\* ------------------------------------------- ListSets and GetRecord requests

\* The values of resumptionToken presented to ListSets: tokens with the
\* verb ListSets or ListRecords and any date, and a ListSets token of
\* second 0 with one thing wrong.
SetsTokens ==
    {[Canonical("ListRecords", "i1", date) EXCEPT !.verb = verb] :
        verb \in {"ListSets", "ListRecords"}, date \in TokenDates}
    \cup Malformed([Canonical("ListRecords", "i1", FormatDatestamp(0))
                       EXCEPT !.verb = "ListSets"])

\* request.params of ListSets besides resumptionToken: verb alone, with an
\* argument, with verb or resumptionToken given twice.
SetsRequests ==
    {VerbParams("ListSets", NONE, NONE),
     InitialParams("ListSets", NONE, "a"),
     [VerbParams("ListSets", NONE, NONE) EXCEPT !.keys = @ \cup {"x"}],
     [VerbParams("ListSets", NONE, NONE) EXCEPT !.repeated = {"verb"}],
     [VerbParams("ListSets", NONE, NONE)
        EXCEPT !.repeated = {"resumptionToken"}]}

\* request.params of GetRecord: identifier and metadataPrefix given or not,
\* known or not, with or without an argument no verb knows, one name maybe
\* given twice.
RecordRequests ==
    {[VerbParams("GetRecord", identifier, metadataPrefix)
        EXCEPT !.keys = @ \cup extra, !.repeated = repeated] :
        identifier \in {NONE} \cup Identifiers,
        metadataPrefix \in {NONE} \cup Prefixes,
        extra \in {{}, {"x"}},
        repeated \in {{}, {"verb"}, {"identifier"}}}

\* A provider of one item in two formats and a set, which never raises.
InitRequests ==
    /\ Boot
    /\ provider = [prefixes |-> Prefixes, identifiers |-> {"i1"},
                   specs |-> SetSpecs, bodies |-> {"x"},
                   dry_run |-> {FALSE}, since |-> {FALSE},
                   raises |-> {FALSE}, texts |-> {"ascii"}]

\* A ListSets request, handled when the response to the request before
\* has been sent.
ListSets ==
    /\ resp = NoResponse
    /\ \E request_params \in SetsRequests,
          tok \in {NoToken} \cup SetsTokens,
          latest \in DatestampGet(db) :
          /\ "resumptionToken" \in request_params.repeated
                => tok.kind # "none"
          /\ Answer(HandleListSets(db, request_params, tok, latest, now))

\* A GetRecord request.
GetRecordWith ==
    /\ resp = NoResponse
    /\ \E params \in RecordRequests :
          Answer(HandleGetRecord(db, cfg, params, now))

NextRequests ==
    \/ Tick
    \/ StartRun
    \/ UpdateFormats
    \/ UpdateItems
    \/ UpdateItemSets
    \/ UpdateRecord
    \/ FinishRun
    \/ ListSets
    \/ GetRecordWith

SpecRequests == InitRequests /\ [][NextRequests]_vars

\* ------------------------------------------------------ calls of Record.list

\* The records a store of this universe may have, and the rows of a
\* record: two items in oai_dc, the first one also in ddi.
ListedKeys == {<<"i1", "oai_dc">>, <<"i2", "oai_dc">>, <<"i1", "ddi">>}

ListedRows ==
    UNION {[K -> [deleted : BOOLEAN, datestamp : 0..MaxTime]] :
             K \in SUBSET ListedKeys}

\* The links of items to sets: the first item in a, in its subset a:b, in
\* both or in none, the second one in a or in none.
ListedLinks == SUBSET {<<"i1", "a">>, <<"i1", "a:b">>, <<"i2", "a">>}

\* The stores: both formats and both items, not deleted, records with any
\* datestamp, deleted or not (the ddi record not deleted, of second 0).
ListedStores ==
    {[formats |-> [p \in Prefixes |->
                     LET d == CHOOSE d \in FormatDefs(p) : TRUE
                     IN [namespace |-> d.namespace, schema |-> d.schema,
                         deleted |-> FALSE]],
      items |-> [i \in Identifiers |-> [deleted |-> FALSE]],
      records |-> [k \in DOMAIN rows |->
                     LET f == CHOOSE d \in FormatDefs(k[2]) : TRUE
                     IN [xml |-> XmlDoc(f.namespace, f.schema, "x"),
                         deleted |-> rows[k].deleted,
                         datestamp |-> rows[k].datestamp]],
      sets |-> [spec \in {l[2] : l \in links} |-> SetName],
      links |-> links,
      datestamps |-> {MaxTime}] :
        rows \in {r \in ListedRows :
                    <<"i1", "ddi">> \in DOMAIN r =>
                        r[<<"i1", "ddi">>] = [deleted |-> FALSE,
                                              datestamp |-> 0]},
        links \in ListedLinks}

\* The arguments of the calls.
Queries ==
    [metadata_prefix : Prefixes,
     from_date : {NoDatestamp} \cup {[some |-> TRUE, t |-> t] : t \in 0..MaxTime},
     until_date : {NoDatestamp} \cup {[some |-> TRUE, t |-> t] : t \in 0..MaxTime},
     set_ : {NONE, "a"},
     ignore_deleted : BOOLEAN,
     offset : {NONE, "i2"},
     limit : {NoLimit, Limit(-1), Limit(0), Limit(1)}]

\* Any of the stores, at the end of the time, with nothing in progress.
InitList ==
    /\ now = MaxTime
    /\ db \in ListedStores
    /\ tx = db
    /\ run = Idle
    /\ cfg = [deleted_records |-> "persistent", item_list_limit |-> 1]
    /\ provider = [prefixes |-> {}, identifiers |-> {}, specs |-> {},
                   bodies |-> {}, dry_run |-> {FALSE}, since |-> {FALSE},
                   raises |-> {FALSE}, texts |-> {"ascii"}]
    /\ req = NoRequest
    /\ token = NoToken
    /\ resp = NoResponse
    /\ hist = NoHistory

\* Record.list is called; what it returns or raises is kept in `resp`.
RecordListCall ==
    /\ resp = NoResponse
    /\ \E q \in Queries :
          Answer([NoResponse EXCEPT
                    !.kind = "Record.list", !.time = now, !.query = q,
                    !.error = IF RecordListRaises(q.limit) THEN "ValueError"
                              ELSE "",
                    !.records =
                        IF RecordListRaises(q.limit) THEN <<>>
                        ELSE RecordList(db, q.metadata_prefix, q.from_date,
                                        q.until_date, q.set_,
                                        q.ignore_deleted, q.offset,
                                        q.limit)])

\* The response is read, and the next call can be made.
ResponseRead ==
    /\ resp # NoResponse
    /\ resp' = NoResponse
    /\ UNCHANGED <<now, db, tx, run, cfg, provider, req, token, hist>>

NextList ==
    \/ RecordListCall
    \/ ResponseRead

SpecList == InitList /\ [][NextList]_vars

\* ------------------------------------------------ runs that relink an item

\* A provider of one item in two formats, which may put the item in set a
\* and may raise; no run is dry or incremental.
InitLinks ==
    /\ Boot
    /\ provider = [prefixes |-> Prefixes, identifiers |-> {"i1"},
                   specs |-> SetSpecs, bodies |-> {"x"},
                   dry_run |-> {FALSE}, since |-> {FALSE},
                   raises |-> BOOLEAN, texts |-> {"ascii"}]

NextLinks ==
    \/ Tick
    \/ StartRun
    \/ UpdateFormats
    \/ UpdateItems
    \/ UpdateItemSetsKept
    \/ UpdateRecord
    \/ FinishRun

SpecLinks == InitLinks /\ [][NextLinks]_vars

\* ------------------------------------------------- chains of continuations

\* The values of item_list_limit of the chains.
ChainLimits == {1, 2}

\* The rows of the records of oai_dc: none, or one of second 0 or MaxTime,
\* deleted or not.
ChainRows ==
    UNION {[{<<i, "oai_dc">> : i \in I} ->
               [deleted : BOOLEAN, datestamp : {0, MaxTime}]] :
           I \in SUBSET {IdOrder[k] : k \in 1..Len(IdOrder)}}

\* The stores: oai_dc, three items any of which is in set a, any rows.
ChainStores ==
    {[formats |-> [p \in {"oai_dc"} |->
                     [namespace |-> OAI_DC_NS, schema |-> OAI_DC_XSD,
                      deleted |-> FALSE]],
      items |-> [i \in {IdOrder[k] : k \in 1..Len(IdOrder)} |->
                   [deleted |-> FALSE]],
      records |-> [k \in DOMAIN rows |->
                     [xml |-> XmlDoc(OAI_DC_NS, OAI_DC_XSD, "x"),
                      deleted |-> rows[k].deleted,
                      datestamp |-> rows[k].datestamp]],
      sets |-> [spec \in {"a"} |-> SetName],
      links |-> {<<i, "a">> : i \in members},
      datestamps |-> {MaxTime}] :
        rows \in ChainRows,
        members \in SUBSET {IdOrder[k] : k \in 1..Len(IdOrder)}}

\* A store that does not change, read after its last commit.
InitChain ==
    /\ now = MaxTime + 1
    /\ db \in ChainStores
    /\ tx = db
    /\ run = Idle
    /\ cfg \in [deleted_records : {"no", "persistent"},
                 item_list_limit : ChainLimits]
    /\ provider = [prefixes |-> {"oai_dc"}, identifiers |-> {},
                   specs |-> {"a"},
                   bodies |-> {}, dry_run |-> {FALSE}, since |-> {FALSE},
                   raises |-> {FALSE}, texts |-> {"ascii"}]
    /\ req = NoRequest
    /\ token = NoToken
    /\ resp = NoResponse
    /\ hist = NoHistory

\* The first request of a harvest; the client keeps the page, the token,
\* and what it asked for.
ChainInitial ==
    /\ resp = NoResponse
    /\ \E verb \in ListVerbs, metadataPrefix \in provider.prefixes,
          set \in {NONE} \cup provider.specs,
          from \in {NoDate, FormatDatestamp(MaxTime)},
          until \in {NoDate, FormatDatestamp(0)},
          latest \in DatestampGet(db) :
          LET params == ListParams(verb, metadataPrefix, set, from, until,
                                   FALSE)
              r == HandleListItems(db, cfg, verb, params, NoToken, latest,
                                   now)
          IN /\ resp' = [r EXCEPT
                           !.first = params,
                           !.pages = IF r.error = "" THEN <<r.records>>
                                     ELSE <<>>]
             /\ token' = r.token
    /\ UNCHANGED <<now, db, tx, run, cfg, provider, req, hist>>

\* The client presents the token of the last response and adds the page
\* to those it has; a request that fails leaves it where it was.
ChainContinue ==
    /\ token.kind = "token"
    /\ \E verb \in ListVerbs, latest \in DatestampGet(db) :
          LET r == HandleListItems(db, cfg, verb,
                                   InitialParams(verb, NONE, NONE),
                                   token, latest, now)
          IN /\ resp' = [r EXCEPT
                           !.first = resp.first,
                           !.pages = IF r.error = ""
                                     THEN Append(resp.pages, r.records)
                                     ELSE resp.pages,
                           !.offsets = IF r.error = ""
                                       THEN Append(resp.offsets, token.offset)
                                       ELSE resp.offsets]
             /\ token' = IF r.error = "" THEN r.token ELSE token
    /\ UNCHANGED <<now, db, tx, run, cfg, provider, req, hist>>

NextChain ==
    \/ ChainInitial
    \/ ChainContinue

SpecChain == InitChain /\ [][NextChain]_vars

\* -------------------------------------------- calls of Record.create_or_update

\* A text that etree.fromstring does not parse.
XmlIllFormed == [kind |-> "illformed", ns |-> "", hasLoc |-> FALSE, loc |-> {}, body |-> "x"]

\* The documents given to Record.create_or_update for a prefix: the valid
\* ones of each declaration of the format, one with another namespace, one
\* without xsi:schemaLocation, one whose xsi:schemaLocation lists another
\* schema only, and a text that is not well formed.
Documents(prefix) ==
    LET valid == {XmlDoc(d.namespace, d.schema, "x") : d \in FormatDefs(prefix)}
    IN valid
       \cup {[d EXCEPT !.ns = "urn:wrong"] : d \in valid}
       \cup {[d EXCEPT !.hasLoc = FALSE, !.loc = {}] : d \in valid}
       \cup {[d EXCEPT !.loc = {"other.xsd"}] : d \in valid}
       \cup {XmlIllFormed}

\* A provider of one item in two formats, which never raises; the calls
\* are made for two identifiers.
InitRecords ==
    /\ Boot
    /\ provider = [prefixes |-> Prefixes, identifiers |-> {"i1"},
                   specs |-> {}, bodies |-> {"x"},
                   dry_run |-> {FALSE}, since |-> {FALSE},
                   raises |-> {FALSE}, texts |-> {"ascii"}]

\* Between two runs Record.create_or_update(identifier, prefix, xml) is
\* called in a session of its own, which is rolled back afterwards:
\* resp.store is the session right after the call, resp.error tells that the
\* call raised.
RecordCreateOrUpdateAttempt ==
    /\ run.pc = "idle"
    /\ resp = NoResponse
    /\ \E identifier \in Identifiers, prefix \in provider.prefixes :
          \E xml \in Documents(prefix) :
             LET r == RecordCreateOrUpdate(db, identifier, prefix, xml, now)
             IN resp' = [NoResponse EXCEPT
                           !.kind = "Record.create_or_update",
                           !.time = now,
                           !.params.identifier = identifier,
                           !.params.metadataPrefix = prefix,
                           !.xml = xml,
                           !.error = IF r.ok THEN "" ELSE "ValueError",
                           !.store = r.s]
    /\ tx' = db
    /\ UNCHANGED <<now, db, run, cfg, provider, req, token, hist>>

\* Between two runs Format.create_or_update(prefix, namespace, schema) is
\* called in a session of its own, which is rolled back afterwards.
FormatCreateOrUpdateAttempt ==
    /\ run.pc = "idle"
    /\ resp = NoResponse
    /\ \E prefix \in provider.prefixes \cup {"d d i"} :
          \E f \in FormatDefs(prefix) :
             LET r == FormatCreateOrUpdate(db, prefix, f.namespace, f.schema,
                                           now)
             IN resp' = [NoResponse EXCEPT
                           !.kind = "Format.create_or_update",
                           !.time = now,
                           !.params.metadataPrefix = prefix,
                           !.format = f,
                           !.error = IF r.ok THEN "" ELSE "ValueError",
                           !.store = r.s]
    /\ tx' = db
    /\ UNCHANGED <<now, db, run, cfg, provider, req, token, hist>>

NextRecords ==
    \/ Tick
    \/ StartRun
    \/ UpdateFormats
    \/ UpdateItems
    \/ UpdateItemSets
    \/ UpdateRecord
    \/ FinishRun
    \/ RecordCreateOrUpdateAttempt
    \/ FormatCreateOrUpdateAttempt

SpecRecords == InitRecords /\ [][NextRecords]_vars

\* ------------------------------------------------------- the importer's main

\* The timestamp file does not exist.
NoFile == [shape |-> "missing", value |-> 0]

\* read_timestamp: the time parse_date reads from the text of the file;
\* None when the file does not exist or parse_date raises ValueError.
ReadTimestamp(text) ==
    IF text = NoFile \/ ~ParseDate(text, 0).ok THEN NoDatestamp
    ELSE [some |-> TRUE, t |-> ParseDate(text, 0).date]

\* A faulty main, which records the time at which update returned.
WriteTimestampAtEnd(new_timestamp, end) == FormatDatestamp(end)

\* write_timestamp(timestamp_file, new_timestamp) at the end of main, at the
\* time `end`: the text of the file.
WriteTimestamp(new_timestamp, end) == FormatDatestamp(new_timestamp)

\* provider.has_changed(identifier, since) of a provider that remembers
\* when each item last changed.
HasChanged(identifier, since) == provider.changed[identifier] >= since

\* The settings of the importer: cfg.timestamp is the text of the file
\* that timestamp_file names.  The item of the provider has a format with
\* an invalid prefix besides oai_dc, and changes from time to time.
InitMain ==
    /\ now = 0
    /\ db = EnsureOaiDcExists(EmptyStore)
    /\ tx = db
    /\ run = Idle
    /\ cfg \in [deleted_records : {"no", "persistent"},
                 item_list_limit : PageLimits,
                 force_update : BOOLEAN,
                 timestamp : {NoFile, Garbage, FormatDatestamp(0)}]
    /\ provider = [prefixes |-> {"oai_dc", "d d i"}, identifiers |-> {"i1"},
                   specs |-> {}, bodies |-> {"x"},
                   dry_run |-> {FALSE}, since |-> {FALSE},
                   raises |-> {FALSE}, texts |-> {"ascii"},
                   changed |-> [i \in {"i1"} |-> 0]]
    /\ req = NoRequest
    /\ token = NoToken
    /\ resp = NoResponse
    /\ hist = NoHistory

\* An item changes at the provider, also while the importer runs.
ProviderChange ==
    /\ \E identifier \in provider.identifiers :
          /\ provider.changed[identifier] # now
          /\ provider' = [provider EXCEPT !.changed[identifier] = now]
    /\ resp' = NoResponse
    /\ UNCHANGED <<now, db, tx, run, cfg, req, token, hist>>

\* main up to the call of update: ensure_oai_dc_exists, read_timestamp
\* unless force_update, new_timestamp = datestamp_now(), and
\* update(metadata_provider, old_timestamp, purge).
MainStart ==
    /\ run.pc = "idle"
    /\ db' = EnsureOaiDcExists(db)
    /\ tx' = db'
    /\ LET old_timestamp == IF cfg.force_update THEN NoDatestamp
                            ELSE ReadTimestamp(cfg.timestamp)
       IN run' = [Idle EXCEPT !.pc = "formats",
                              !.since = old_timestamp.some,
                              !.old_timestamp = old_timestamp,
                              !.new_timestamp = now]
    /\ hist' = Tracked(db')
    /\ resp' = NoResponse
    /\ UNCHANGED <<now, cfg, provider, req, token>>

\* update_records, the head of the loop: the item is skipped exactly when
\* since is given and has_changed(identifier, since) is false.
UpdateItemSetsChanged ==
    /\ UpdateItemSets
    /\ \A identifier \in run.todo \ run'.todo :
          run'.cur = identifier
              <=> (~run.since \/ HasChanged(identifier, run.old_timestamp.t))

\* update returns, and main writes the timestamp file.
MainReturn ==
    /\ run.pc = "records"
    /\ run.cur = NONE
    /\ run.todo = {}
    /\ tx' = db
    /\ run' = [Idle EXCEPT !.completed = TRUE]
    /\ cfg' = [cfg EXCEPT !.timestamp = WriteTimestamp(run.new_timestamp, now)]
    /\ resp' = NoResponse
    /\ UNCHANGED <<now, db, provider, req, token, hist>>

NextMain ==
    \/ Tick
    \/ ProviderChange
    \/ MainStart
    \/ UpdateFormats
    \/ UpdateItems
    \/ UpdateItemSetsChanged
    \/ UpdateRecord
    \/ MainReturn

SpecMain == InitMain /\ [][NextMain]_vars

\* ----------------------------------------- a provider that is repaired

\* The record of the only item is in the database, not deleted.
Imported ==
    /\ <<"i1", "oai_dc">> \in DOMAIN db.records
    /\ ~db.records[<<"i1", "oai_dc">>].deleted

\* The importer is run again and again by its timer, without force_update
\* and at first without timestamp file.  The provider offers oai_dc and
\* the item i1; its get_record fails (it raises, or the document is
\* invalid) until the provider is repaired, which does not change the item.
InitRetry ==
    /\ now = 0
    /\ db = EnsureOaiDcExists(EmptyStore)
    /\ tx = db
    /\ run = Idle
    /\ cfg \in [deleted_records : {"no", "persistent"},
                 item_list_limit : PageLimits,
                 force_update : {FALSE},
                 timestamp : {NoFile}]
    /\ provider = [prefixes |-> {"oai_dc"}, identifiers |-> {"i1"},
                   specs |-> {}, bodies |-> {"x"},
                   dry_run |-> {FALSE}, since |-> {FALSE},
                   raises |-> BOOLEAN, texts |-> {"ascii"},
                   changed |-> [i \in {"i1"} |-> 0],
                   repaired |-> FALSE]
    /\ req = NoRequest
    /\ token = NoToken
    /\ resp = NoResponse
    /\ hist = NoHistory

\* The item changes while the provider is broken.
ProviderChangeBroken ==
    /\ ~provider.repaired
    /\ ProviderChange

\* After a run has written the timestamp file without importing the
\* record, the provider is repaired: from now on its methods answer, and
\* get_record returns a valid document.
ProviderRepair ==
    /\ run.pc = "idle"
    /\ ~provider.repaired
    /\ cfg.timestamp # NoFile
    /\ ~Imported
    /\ provider' = [provider EXCEPT !.repaired = TRUE]
    /\ resp' = NoResponse
    /\ UNCHANGED <<now, db, tx, run, cfg, req, token, hist>>

\* update_formats with the answer {oai_dc}, or an exception while the
\* provider is broken.
RetryFormats ==
    /\ UpdateFormats
    /\ run'.pc = "items" => run'.prefixes = {"oai_dc"}
    /\ provider.repaired => run'.pc = "items"

\* update_items with the answer {i1}, or an exception while the provider
\* is broken.
RetryItems ==
    /\ UpdateItems
    /\ run'.pc = "records" => run'.identifiers = {"i1"}
    /\ provider.repaired => run'.pc = "records"

\* One pass of update_records: get_record fails while the provider is
\* broken and returns the valid document afterwards.
RetryRecord ==
    /\ UpdateRecordKept
    /\ LET pair == <<run.cur, "oai_dc">>
       IN IF provider.repaired
          THEN /\ pair \in DOMAIN run'.got
               /\ run'.got[pair] = XmlDoc(OAI_DC_NS, OAI_DC_XSD, "x")
          ELSE \/ pair \notin DOMAIN run'.got
               \/ run'.got[pair].ns = "urn:wrong"

NextRetry ==
    \/ Tick
    \/ ProviderChangeBroken
    \/ ProviderRepair
    \/ MainStart
    \/ RetryFormats
    \/ RetryItems
    \/ UpdateItemSetsChanged
    \/ RetryRecord
    \/ MainReturn

\* Every step of a run is taken in the end, and so is the next start.
SpecRetry ==
    /\ InitRetry
    /\ [][NextRetry]_vars
    /\ WF_vars(MainStart)
    /\ WF_vars(RetryFormats)
    /\ WF_vars(RetryItems)
    /\ WF_vars(UpdateItemSetsChanged)
    /\ WF_vars(RetryRecord)
    /\ WF_vars(MainReturn)

\* ------------------------------------------------- a provider that fails

\* A provider of two items without sets in oai_dc, ddi and a format with an
\* invalid prefix, whose methods may raise exceptions of either text.  The
\* runs are made within one second.
InitFailures ==
    /\ Boot
    /\ provider = [prefixes |-> Prefixes \cup {"d d i"},
                   identifiers |-> Identifiers,
                   specs |-> {}, bodies |-> {"x"},
                   dry_run |-> {FALSE}, since |-> {FALSE},
                   raises |-> BOOLEAN, texts |-> ExceptionTexts]

NextFailures ==
    \/ StartRun
    \/ UpdateFormats
    \/ UpdateItems
    \/ UpdateItemSets
    \/ UpdateRecordKept
    \/ FinishRun

SpecFailures == InitFailures /\ [][NextFailures]_vars

\* ----------------------------------------------------- Record.set_specs

\* The set specs of a provider with a hierarchy of three levels, and the
\* colon-separated segments of each.
TreeSpecs == {"a", "a:b", "a:b:c", "a:d", "e"}

Path(spec) ==
    CASE spec = "a:b" -> <<"a", "b">>
      [] spec = "a:b:c" -> <<"a", "b", "c">>
      [] spec = "a:d" -> <<"a", "d">>
      [] OTHER -> <<spec>>

\* spec.count(':')
Level(spec) == Len(Path(spec)) - 1

\* The rows of `seq` of each level from `level` down to 0, in their order.
RECURSIVE LevelsFrom(_, _)
LevelsFrom(seq, level) ==
    IF level < 0 THEN <<>>
    ELSE SelectSeq(seq, LAMBDA spec : Level(spec) = level)
         \o LevelsFrom(seq, level - 1)

\* The rows of `seq` of each level from 0 up to `level`, in their order.
RECURSIVE LevelsUpTo(_, _)
LevelsUpTo(seq, level) ==
    IF level < 0 THEN <<>>
    ELSE LevelsUpTo(seq, level - 1)
         \o SelectSeq(seq, LAMBDA spec : Level(spec) = level)

\* A faulty sort, in ascending order of level.
SortByLevelAscending(seq) ==
    LevelsUpTo(seq, Cardinality(TreeSpecs))

\* specs.sort(key=lambda x: -x.count(':')): a stable sort in descending
\* order of level.
SortByLevel(seq) ==
    LevelsFrom(seq, Cardinality(TreeSpecs))

\* spec[:i] for the index i of each colon of spec.
Parents(spec) ==
    {parent \in TreeSpecs :
        /\ Len(Path(parent)) < Len(Path(spec))
        /\ SubSeq(Path(spec), 1, Len(Path(parent))) = Path(parent)}

\* The loop of set_specs over the sorted specs.
RECURSIVE SetSpecsLoop(_, _, _)
SetSpecsLoop(specs, processed, result) ==
    IF specs = <<>> THEN result
    ELSE IF Head(specs) \in processed
         THEN SetSpecsLoop(Tail(specs), processed, result)
         ELSE SetSpecsLoop(Tail(specs),
                           processed \cup Parents(Head(specs)),
                           Append(result, Head(specs)))

\* Record.set_specs, for the rows `rows` of its query.
RecordSetSpecs(rows) == SetSpecsLoop(SortByLevel(rows), {}, <<>>)

\* The orders in which a query may give the rows `S`.
Orderings(S) ==
    {seq \in [1..Cardinality(S) -> S] :
        \A a, b \in 1..Cardinality(S) : a # b => seq[a] # seq[b]}

\* The stores: two items with a record each, the first linked to any sets
\* of the hierarchy, the second to none, to a or to e.
TreeStores ==
    {[formats |-> [p \in {"oai_dc"} |->
                     [namespace |-> OAI_DC_NS, schema |-> OAI_DC_XSD,
                      deleted |-> FALSE]],
      items |-> [i \in Identifiers |-> [deleted |-> FALSE]],
      records |-> [k \in {<<i, "oai_dc">> : i \in Identifiers} |->
                     [xml |-> XmlDoc(OAI_DC_NS, OAI_DC_XSD, "x"),
                      deleted |-> FALSE, datestamp |-> 0]],
      sets |-> [spec \in first \cup second |-> SetName],
      links |-> {<<"i1", spec>> : spec \in first}
                \cup {<<"i2", spec>> : spec \in second},
      datestamps |-> {0}] :
        first \in SUBSET TreeSpecs, second \in {{}, {"a"}, {"e"}}}

\* Any of the stores, with nothing in progress.
InitTree ==
    /\ now = 0
    /\ db \in TreeStores
    /\ tx = db
    /\ run = Idle
    /\ cfg = [deleted_records |-> "persistent", item_list_limit |-> 1]
    /\ provider = [prefixes |-> {}, identifiers |-> {}, specs |-> {},
                   bodies |-> {}, dry_run |-> {FALSE}, since |-> {FALSE},
                   raises |-> {FALSE}, texts |-> {"ascii"}]
    /\ req = NoRequest
    /\ token = NoToken
    /\ resp = NoResponse
    /\ hist = NoHistory

\* set_specs of a record is read: its query gives the specs of the sets
\* of the item in some order.
SetSpecsCall ==
    /\ resp = NoResponse
    /\ \E key \in DOMAIN db.records :
          \E rows \in Orderings({l[2] : l \in {m \in db.links :
                                                  m[1] = key[1]}}) :
             Answer([NoResponse EXCEPT
                       !.kind = "set_specs", !.time = now,
                       !.params.identifier = key[1],
                       !.params.metadataPrefix = key[2],
                       !.specs = RecordSetSpecs(rows)])

NextTree ==
    \/ SetSpecsCall
    \/ ResponseRead

SpecTree == InitTree /\ [][NextTree]_vars

\* --------------------------------------------------- requests with dates

\* The values of from and until: none, texts of the two shapes, texts of
\* their lengths that strptime reads all the same, and a text it does not.
DateTexts ==
    {NoDate, Garbage, DayText(0), DayText(1),
     [shape |-> "day_loose", value |-> 0],
     [shape |-> "second_loose", value |-> 0]}
    \cup {FormatDatestamp(t) : t \in 0..MaxTime}

\* A provider of one item in oai_dc, which never raises.
InitDates ==
    /\ Boot
    /\ provider = [prefixes |-> {"oai_dc"}, identifiers |-> {"i1"},
                   specs |-> {}, bodies |-> {"x"},
                   dry_run |-> {FALSE}, since |-> {FALSE},
                   raises |-> {FALSE}, texts |-> {"ascii"}]

\* A list request with metadataPrefix = oai_dc and any from and until.
ListBetween ==
    /\ run.pc = "idle"
    /\ resp = NoResponse
    /\ \E verb \in ListVerbs, from \in DateTexts, until \in DateTexts,
          latest \in DatestampGet(db) :
          resp' = HandleListItems(db, cfg, verb,
                                  ListParams(verb, "oai_dc", NONE, from,
                                             until, FALSE),
                                  NoToken, latest, now)
    /\ UNCHANGED <<now, db, tx, run, cfg, provider, req, token, hist>>

NextDates ==
    \/ Tick
    \/ StartRun
    \/ UpdateFormats
    \/ UpdateItems
    \/ UpdateItemSets
    \/ UpdateRecord
    \/ FinishRun
    \/ ListBetween

SpecDates == InitDates /\ [][NextDates]_vars

\* ------------------------------------------------ requests with any arguments

\* The verbs with a view, and the arguments their handlers pass to
\* _check_params for a request without resumptionToken.
KnownVerbs ==
    {"Identify", "ListSets", "ListMetadataFormats", "GetRecord"}
    \cup ListVerbs

Required(verb) ==
    IF verb = "GetRecord" THEN {"identifier", "metadataPrefix"}
    ELSE IF verb \in ListVerbs THEN {"metadataPrefix"}
    ELSE {}

Allowed(verb) ==
    IF verb = "ListMetadataFormats" THEN {"identifier"}
    ELSE IF verb \in ListVerbs THEN {"from", "until", "set"}
    ELSE {}

\* The view the route chooses by the value of verb (the last one when it
\* is given more than once), and its response.
Route(s, settings, params, latest, time) ==
    IF "verb" \notin params.keys \/ params.verb \notin KnownVerbs
    THEN InvalidVerbView(params, time)
    ELSE IF params.verb = "Identify"
    THEN HandleIdentify(s, settings, params, time)
    ELSE IF params.verb = "ListSets"
    THEN HandleListSets(s, params, NoToken, latest, time)
    ELSE IF params.verb = "ListMetadataFormats"
    THEN HandleListMetadataFormats(s, settings, params, time)
    ELSE IF params.verb = "GetRecord"
    THEN HandleGetRecord(s, settings, params, time)
    ELSE HandleListItems(s, settings, params.verb, params, NoToken, latest,
                         time)

\* The names a request gives, and request.params with any of them, one of
\* them maybe given twice.
ArgumentNames == {"verb", "identifier", "metadataPrefix", "set", "x"}

ArgumentSets ==
    {[NoParams EXCEPT
        !.verb = verb,
        !.identifier = IF "identifier" \in keys THEN "i1" ELSE NONE,
        !.metadataPrefix = IF "metadataPrefix" \in keys THEN "oai_dc"
                           ELSE NONE,
        !.set = IF "set" \in keys THEN "a" ELSE NONE,
        !.keys = keys, !.repeated = repeated] :
        verb \in KnownVerbs \cup {"Bogus"},
        keys \in SUBSET ArgumentNames,
        repeated \in {{}} \cup {{name} : name \in ArgumentNames}}

\* The database of a deployment that has not harvested yet.
InitArguments ==
    /\ Boot
    /\ provider = [prefixes |-> {}, identifiers |-> {}, specs |-> {},
                   bodies |-> {}, dry_run |-> {FALSE}, since |-> {FALSE},
                   raises |-> {FALSE}, texts |-> {"ascii"}]

\* A request with any arguments.
AnyRequest ==
    /\ resp = NoResponse
    /\ \E params \in ArgumentSets, latest \in DatestampGet(db) :
          /\ params.repeated \subseteq params.keys
          /\ Answer(Route(db, cfg, params, latest, now))

\* _check_params called with any arguments and the lists of a verb.
CheckParamsCall ==
    /\ resp = NoResponse
    /\ \E params \in ArgumentSets :
          /\ params.repeated \subseteq params.keys
          /\ params.verb \in KnownVerbs
          /\ Answer([NoResponse EXCEPT
                       !.kind = "check_params", !.verb = params.verb,
                       !.time = now, !.params = params, !.request = params,
                       !.error = CheckParams(params, Required(params.verb),
                                             Allowed(params.verb))])

NextArguments ==
    \/ Tick
    \/ AnyRequest
    \/ CheckParamsCall

SpecArguments == InitArguments /\ [][NextArguments]_vars

\* ------------------------------------------------------------------ claims

RunInProgress == run.pc # "idle"

\* C5: a run with dry_run = true leaves the committed database (formats,
\* items, records, sets, links, Datestamp) and the session as they were:
\* no step of such a run writes or commits.
C5_DryRunChangesNothing ==
    [][(RunInProgress /\ run.dry_run) => (db' = db /\ tx' = tx)]_vars

\* C5 witness: a dry run is past update_formats and update_items and inside
\* update_records, over a database that holds a record and a set link.
C5_Witness ==
    /\ run.dry_run
    /\ run.pc = "records"
    /\ run.cur # NONE
    /\ run.todoPrefixes # run.prefixes
    /\ DOMAIN db.records # {}
    /\ db.links # {}

SoftDeleted(s) ==
    {<<"record", k>> : k \in {k \in DOMAIN s.records : s.records[k].deleted}}
    \cup {<<"format", p>> : p \in {p \in DOMAIN s.formats : s.formats[p].deleted}}
    \cup {<<"item", i>> : i \in {i \in DOMAIN s.items : s.items[i].deleted}}

\* C6: with deleted_records = no, after a completed run the database holds
\* no record, format or item with deleted = true.
C6_NoSoftDeletedAfterRun ==
    (cfg.deleted_records = "no" /\ run.pc = "idle" /\ run.completed)
        => SoftDeleted(db) = {}

\* C7: a format oai_dc exists and is not deleted, in every state after
\* initialization.
C7_OaiDcAlwaysExists ==
    /\ "oai_dc" \in DOMAIN db.formats
    /\ ~db.formats["oai_dc"].deleted

\* C8: in the committed database a record is deleted iff its xml is null.
C8_DeletedIffXmlNull ==
    \A k \in DOMAIN db.records :
        db.records[k].deleted <=> db.records[k].xml = XmlNull

\* C9: at every commit boundary every non-deleted record references a
\* format that exists and is not deleted and an item that exists and is not
\* deleted.
C9_LiveRecordHasLiveFormatAndItem ==
    \A k \in DOMAIN db.records :
        ~db.records[k].deleted =>
            /\ FormatExists(db, k[2], TRUE)
            /\ ItemExists(db, k[1], TRUE)

\* C9 witness: a format was soft-deleted while it had a record, and an item
\* was soft-deleted while it had a record.
C9_Witness ==
    /\ \E k \in DOMAIN db.records :
          k[2] \in DOMAIN db.formats /\ db.formats[k[2]].deleted
    /\ \E k \in DOMAIN db.records :
          k[1] \in DOMAIN db.items /\ db.items[k[1]].deleted

\* ---------------------------------------------------- claims on the engine

Rejected(r) ==
    /\ r.error \in {"InvalidResumptionToken", "ExpiredResumptionToken"}
    /\ r.records = <<>>
    /\ r.token.kind = "none"

\* C2: when a mutation that bumps the Datestamp (a record created, changed,
\* deleted or undeleted, or a row purged) was committed after a token was
\* issued, presenting the token with its verb fails with
\* InvalidResumptionToken or ExpiredResumptionToken and returns no records.
C2_MutationInvalidatesToken ==
    (resp.kind = "continuation" /\ resp.hist.mutated) => Rejected(resp)

\* C2 witness: a token presented with its own verb after such a mutation
\* was found expired.
C2_Witness ==
    /\ resp.kind = "continuation"
    /\ resp.hist.mutated
    /\ resp.verb = resp.presented.verb
    /\ resp.error = "ExpiredResumptionToken"

\* C3: a token of a request with a set filter is rejected when it is
\* presented after a commit that changed set links.
C3_RelinkInvalidatesToken ==
    (/\ resp.kind = "continuation"
     /\ resp.presented.set # NONE
     /\ resp.hist.relinked) => Rejected(resp)

\* Datestamp.get() is strictly before the date of the token: nothing was
\* written in the second the token was issued or later.
Fresh(tok) ==
    \A latest \in DatestampGet(db) :
        latest.some => latest.t < ParseDate(tok.date, 0).date

\* C4: a token issued for a request without set argument, presented with the
\* same verb while the database is as it was when the token was issued (and
\* was last written before the second of issue), yields the next page, which
\* starts at the token's offset, not an error.
C4_ContinuationReturnsNextPage ==
    (/\ resp.kind = "continuation"
     /\ resp.verb = resp.presented.verb
     /\ resp.presented.set = NONE
     /\ ~resp.hist.changed
     /\ Fresh(resp.presented))
    => (/\ resp.error = ""
        /\ resp.records # <<>>
        /\ resp.records[1] = resp.presented.offset)


\* ------------------------------------------------ claims on the interleaving

\* C1: in every interleaving of a list request with the importer's writes
\* and commits, when a transaction that adds, changes, deletes or purges a
\* record commits after a token was issued, presenting the token fails with
\* InvalidResumptionToken or ExpiredResumptionToken.
C1_CommitAfterIssueInvalidatesToken ==
    (resp.kind = "continuation" /\ resp.hist.mutated)
        => resp.error \in {"InvalidResumptionToken", "ExpiredResumptionToken"}

\* -------------------------------------------------------- claims on the store

Latest(s) == IF s.datestamps = {} THEN -1
             ELSE CHOOSE t \in s.datestamps : \A u \in s.datestamps : u <= t

Earliest(s) == IF s.datestamps = {} THEN -1
               ELSE CHOOSE t \in s.datestamps : \A u \in s.datestamps : t <= u

\* C10: over every step (store calls, commits, rollbacks, clock ticks) the
\* committed Datestamp does not decrease, a rollback brings the session
\* back to the committed value, and after Datestamp.update there is exactly
\* one Datestamp row.
C10_DatestampMonotoneAndSingle ==
    /\ [][/\ Latest(db') >= Latest(db)
          /\ Earliest(db') >= Earliest(db)
          /\ req'.pc = "rollback" => tx'.datestamps = db.datestamps]_vars
    /\ [](req.pc = "Datestamp.update" => Cardinality(tx.datestamps) = 1)

\* C10 witness: Datestamp.update has just run on a session over a committed
\* table of two rows.
C10_Witness ==
    /\ req.pc = "Datestamp.update"
    /\ Cardinality(db.datestamps) = 2
    /\ tx.datestamps = {now}


\* The calls of kuha.models that may write records, formats or items.
StoreCalls ==
    {"Format.create_or_update", "Format.mark_as_deleted",
     "Item.create_or_update", "Item.mark_as_deleted",
     "Record.create_or_update", "Record.mark_as_deleted", "purge_deleted"}

\* Between a and b no row of formats or items was removed.
NothingPurged(a, b) ==
    /\ DOMAIN a.formats \subseteq DOMAIN b.formats
    /\ DOMAIN a.items \subseteq DOMAIN b.items

\* C11: a store call that creates a record, changes its xml, deletes or
\* undeletes it (directly or by cascade), or purges a record, format or
\* item row, leaves the Datestamp table with the current time.
C11_RecordChangeBumpsDatestamp ==
    [][(/\ req'.pc \in StoreCalls
        /\ tx'.records # tx.records \/ ~NothingPurged(tx, tx'))
       => tx'.datestamps = {now}]_vars

\* C11 witness: Format.create_or_update with another namespace has just
\* deleted, at a later time, a record that is committed as not deleted.
C11_Witness ==
    /\ req.pc = "Format.create_or_update"
    /\ "ddi" \in DOMAIN tx.formats /\ ~tx.formats["ddi"].deleted
    /\ \E k \in DOMAIN tx.records \cap DOMAIN db.records :
          /\ k[2] = "ddi"
          /\ ~db.records[k].deleted
          /\ tx.records[k].deleted /\ tx.records[k].datestamp = now
    /\ tx.formats["ddi"].namespace # db.formats["ddi"].namespace
    /\ now > Latest(db)
    /\ tx.datestamps = {now}

\* Between a and b no record was created or removed and no record changed
\* its xml or its deleted flag.
SameRecordState(a, b) ==
    /\ DOMAIN a.records = DOMAIN b.records
    /\ \A k \in DOMAIN a.records :
          /\ a.records[k].xml = b.records[k].xml
          /\ a.records[k].deleted = b.records[k].deleted

\* C12: a store call that changes no record state (the same xml for a live
\* record, mark_as_deleted without a live match, an unchanged format, an
\* item created or undeleted, a purge of nothing) leaves every record's
\* datestamp and the Datestamp table as they were.
C12_NoChangeNoBump ==
    [][(/\ req'.pc \in StoreCalls
        /\ SameRecordState(tx, tx')
        /\ NothingPurged(tx, tx'))
       => /\ tx'.datestamps = tx.datestamps
          /\ tx'.records = tx.records]_vars

\* C12 witness: the last call was a mark_as_deleted made after the clock
\* moved, over a record deleted earlier, which kept its datestamp, as did
\* the Datestamp table.
C12_Witness ==
    /\ req.pc \in {"Record.mark_as_deleted", "Item.mark_as_deleted",
                   "Format.mark_as_deleted"}
    /\ req.time = now
    /\ \E k \in DOMAIN tx.records :
          tx.records[k].deleted /\ tx.records[k].datestamp < now
    /\ tx.datestamps # {} /\ Latest(tx) < now


\* The specs obtained from `spec` by removing trailing :segment groups.
Ancestors(spec) ==
    {q \in DOMAIN Segments :
        /\ Len(Segments[q]) < Len(Segments[spec])
        /\ SubSeq(Segments[spec], 1, Len(Segments[q])) = Segments[q]}

\* C13: in the committed database every ancestor of the spec of a set that
\* is linked to an item is a row of the sets table.
C13_LinkedSetsHaveAncestors ==
    \A l \in db.links :
        l[2] \in DOMAIN db.sets => Ancestors(l[2]) \subseteq DOMAIN db.sets


\* ------------------------------------------------------ claims on the verbs

RecordDeleted(identifier, prefix) ==
    /\ <<identifier, prefix>> \in DOMAIN db.records
    /\ db.records[<<identifier, prefix>>].deleted

ItemSoftDeleted(identifier) ==
    identifier \in DOMAIN db.items /\ db.items[identifier].deleted

FormatSoftDeleted(prefix) ==
    prefix \in DOMAIN db.formats /\ db.formats[prefix].deleted

\* The earliest datestamp of the records that are not deleted, or `time`.
EarliestLive(time) ==
    LET live == {k \in DOMAIN db.records : ~db.records[k].deleted}
    IN IF live = {} THEN time
       ELSE LET k == CHOOSE k \in live :
                        \A j \in live :
                            db.records[k].datestamp <= db.records[j].datestamp
            IN db.records[k].datestamp

\* With deleted_records = no the response shows nothing that is soft-deleted.
HidesDeleted(r) ==
    /\ r.kind \in {"initial", "continuation", "GetRecord"} =>
          \A n \in 1..Len(r.records) :
              /\ <<r.records[n], r.params.metadataPrefix>> \in DOMAIN db.records
              /\ ~RecordDeleted(r.records[n], r.params.metadataPrefix)
    /\ r.kind = "Identify" => r.earliest = EarliestLive(r.time)
    /\ (/\ r.kind \in {"GetRecord", "ListMetadataFormats"}
        /\ ItemSoftDeleted(r.params.identifier))
          => r.error = "IdDoesNotExist"
    /\ (/\ r.kind \in {"initial", "GetRecord"}
        /\ FormatSoftDeleted(r.params.metadataPrefix)
        /\ ~ItemSoftDeleted(r.params.identifier)
        /\ r.kind = "GetRecord" => r.params.identifier \in DOMAIN db.items)
          => r.error = "UnsupportedMetadataFormat"
    /\ r.kind = "ListMetadataFormats" =>
          \A prefix \in r.formats : ~FormatSoftDeleted(prefix)

\* With another policy deleted records are returned.
ShowsTombstones(r) ==
    /\ (/\ r.kind = "GetRecord"
        /\ RecordDeleted(r.params.identifier, r.params.metadataPrefix))
          => r.error = "" /\ r.records = <<r.params.identifier>>
    /\ (/\ r.kind = "initial"
        /\ "set" \notin r.params.keys
        /\ r.params.metadataPrefix \in DOMAIN db.formats)
          => r.records =
                Take(SortIds({k[1] : k \in {k \in DOMAIN db.records :
                                  k[2] = r.params.metadataPrefix}}),
                     cfg.item_list_limit)

\* C14: with deleted_records = no, ListRecords, ListIdentifiers and GetRecord
\* return no deleted record, Identify's earliest datestamp ignores deleted
\* records, a soft-deleted item gives IdDoesNotExist, a soft-deleted format
\* gives UnsupportedMetadataFormat and is not listed; with transient or
\* persistent, deleted records are returned.
C14_DeletedStateExposedByPolicy ==
    IF cfg.deleted_records = "no" THEN HidesDeleted(resp)
    ELSE ShowsTombstones(resp)

\* C14 witness: with deleted_records = no, GetRecord was asked for a deleted
\* record of a live item in a soft-deleted format and refused the format.
C14_Witness ==
    /\ cfg.deleted_records = "no"
    /\ resp.kind = "GetRecord"
    /\ RecordDeleted(resp.params.identifier, resp.params.metadataPrefix)
    /\ ~ItemSoftDeleted(resp.params.identifier)
    /\ FormatSoftDeleted(resp.params.metadataPrefix)
    /\ resp.error = "UnsupportedMetadataFormat"

\* ------------------------------------------------------------------- C15

\* Every answer of get_record kept in `got` is None or a document that is
\* valid for its format as store `s` declares it.
ValidAnswers(got, s) ==
    \A k \in DOMAIN got :
        got[k] # XmlNull =>
            /\ k[2] \in DOMAIN s.formats
            /\ CheckXml(got[k], s.formats[k[2]])

\* Store `s` holds what the provider answered to run `r`.
Mirrors(s, r) ==
    /\ DOMAIN r.got = r.identifiers \X r.prefixes
    /\ {k \in DOMAIN s.records : ~s.records[k].deleted}
          = {k \in DOMAIN r.got : r.got[k] # XmlNull}
    /\ \A k \in DOMAIN r.got :
          r.got[k] # XmlNull => s.records[k].xml = r.got[k]
    /\ ItemList(s, TRUE) = r.identifiers
    /\ FormatList(s, TRUE) = r.prefixes

\* The step in which update returns from a full run that wrote.
FullRunReturns ==
    /\ run.pc = "records"
    /\ run'.pc = "idle"
    /\ run'.completed
    /\ ~run.since
    /\ ~run.dry_run

\* C15: when a full run (since = None, not a dry run) returns, the provider
\* having raised nothing and answered every get_record with None or a valid
\* document, the non-deleted records are exactly the (identifier, prefix)
\* pairs answered with a document, each with that document as its xml (so
\* every other record is deleted or gone), and the non-deleted items and
\* formats are the identifiers and prefixes the provider listed.
C15_FullRunMirrorsProvider ==
    [][(FullRunReturns /\ ValidAnswers(run.got, db')) => Mirrors(db', run)]_vars

\* A full run is about to return: before it both items had a record in ddi
\* and i2 was soft-deleted; the provider listed both items and both formats
\* and answered None for (i1, ddi) and documents for the rest.
C15_Witness ==
    /\ run.pc = "records"
    /\ run.cur = NONE
    /\ run.todo = {}
    /\ ~run.since
    /\ ~run.dry_run
    /\ run.identifiers = Identifiers
    /\ run.prefixes = Prefixes
    /\ DOMAIN run.got = Identifiers \X Prefixes
    /\ run.got[<<"i1", "ddi">>] = XmlNull
    /\ \A k \in DOMAIN run.got : k # <<"i1", "ddi">> => run.got[k] # XmlNull
    /\ ValidAnswers(run.got, db)
    /\ <<"i1", "ddi">> \in DOMAIN db.records
    /\ db.records[<<"i1", "ddi">>].deleted
    /\ db.records[<<"i1", "ddi">>].xml # XmlNull
    /\ Mirrors(db, run)

\* ------------------------------------------------------------------- C16

\* The step in which update returns from an incremental run that wrote.
IncrementalRunReturns ==
    /\ run.pc = "records"
    /\ run'.pc = "idle"
    /\ run'.completed
    /\ run.since
    /\ ~run.dry_run

\* C16: when an incremental run (since set, has_changed true exactly for
\* the items whose content changed after since) returns, every listed
\* identifier and offered prefix for which get_record returns a document
\* has a non-deleted record, also when the item or the format had been
\* soft-deleted or purged and came back unchanged.
C16_IncrementalRunReflectsProvider ==
    [][IncrementalRunReturns =>
         \A i \in provider.listed, p \in DOMAIN provider.formats :
             provider.content[<<i, p>>] =>
                 /\ <<i, p>> \in DOMAIN db'.records
                 /\ ~db'.records[<<i, p>>].deleted]_vars

\* ------------------------------------------------------------------- C17

\* The step in which update_items returns, having written.
UpdateItemsReturns ==
    /\ run.pc = "items"
    /\ run'.pc = "records"
    /\ ~run.dry_run

\* The distinct unicode() values of what identifiers() returns.
Distinct(raw) == {raw[k].text : k \in 1..Len(raw)}

HasDuplicates(raw) == \E j, k \in 1..Len(raw) : j # k /\ raw[j].text = raw[k].text

\* Item `i` is soft-deleted in `s`, and so are all its records.
SoftDeletedWithRecords(s, i) ==
    /\ i \in DOMAIN s.items
    /\ s.items[i].deleted
    /\ \A k \in DOMAIN s.records : k[1] = i => s.records[k].deleted

\* Item `i` and all its records are gone from `s`.
PurgedWithRecords(s, i) ==
    /\ i \notin DOMAIN s.items
    /\ \A k \in DOMAIN s.records : k[1] # i

\* The items that were and are not deleted are untouched, the re-appearing
\* ones are not deleted, and the non-deleted items are the distinct
\* identifiers.
MirrorsDistinct(before, after, raw) ==
    /\ ItemList(after, TRUE) = Distinct(raw)
    /\ \A i \in Distinct(raw) :
          (i \in DOMAIN before.items /\ before.items[i].deleted)
              => (i \in DOMAIN after.items /\ ~after.items[i].deleted)

\* C17 as stated: after update_items on a sequence of identifiers with
\* duplicates, the non-deleted items are the distinct stringified
\* identifiers, every item that was not deleted and is missing from the
\* sequence is soft-deleted together with all its records, and a
\* soft-deleted item that re-appears is not deleted.
C17_MissingItemsSoftDeleted ==
    [][UpdateItemsReturns =>
         /\ MirrorsDistinct(db, db', provider.sequence)
         /\ \A i \in ItemList(db, TRUE) \ Distinct(provider.sequence) :
               SoftDeletedWithRecords(db', i)]_vars

\* C17, amended: the same, except that with purge (deleted_records = no)
\* the items missing from the sequence are removed from the database
\* together with all their records instead of being kept as soft-deleted.
C17_DuplicateIdentifiers ==
    [][UpdateItemsReturns =>
         /\ MirrorsDistinct(db, db', provider.sequence)
         /\ \A i \in ItemList(db, TRUE) \ Distinct(provider.sequence) :
               IF Purge THEN PurgedWithRecords(db', i)
               ELSE SoftDeletedWithRecords(db', i)]_vars

\* update_items has just returned from a sequence that names i1 twice, once
\* as a string and once as another object, and does not name i2: i1 is not
\* deleted, and i2 is kept soft-deleted with a record, which is deleted.
C17_Witness ==
    /\ run.pc = "records"
    /\ run.cur = NONE
    /\ run.todo = run.identifiers
    /\ ~Purge
    /\ HasDuplicates(provider.sequence)
    /\ Distinct(provider.sequence) = {"i1"}
    /\ \E j, k \in 1..Len(provider.sequence) :
          provider.sequence[j].kind # provider.sequence[k].kind
    /\ ItemList(db, TRUE) = {"i1"}
    /\ SoftDeletedWithRecords(db, "i2")
    /\ \E k \in DOMAIN db.records : k[1] = "i2"

\* ------------------------------------------------------------------- C18

\* The token passes the checks of _get_resumption_token that come before
\* the comparison with Datestamp.get().
WellFormed(tok, verb) ==
    /\ tok.json = "object"
    /\ tok.nonstring = {}
    /\ "verb" \notin tok.absent
    /\ tok.verb = verb
    /\ "date" \notin tok.absent
    /\ tok.date.shape \in {"second", "day"}

\* The first and the last second a datestamp text stands for.
FirstSecond(text) ==
    IF text.shape = "day" THEN text.value * DaySeconds ELSE text.value

LastSecond(text) ==
    IF text.shape = "day" THEN text.value * DaySeconds + (DaySeconds - 1)
    ELSE text.value

\* Datestamp.get() is at or after the date of the token.
Expired(tok) ==
    \E latest \in DatestampGet(db) :
        latest.some /\ latest.t >= FirstSecond(tok.date)

\* The response is to a request with resumptionToken and verb only, whose
\* token passed every check of _get_resumption_token.
Accepted(r) ==
    /\ r.kind = "continuation"
    /\ r.request.keys = {"verb"}
    /\ WellFormed(r.presented, r.verb)
    /\ ~Expired(r.presented)

IsDate(text) == text.shape \in {"second", "day"}

\* from or until is no datestamp, or the two differ in granularity, or from
\* is after until.
BadDates(p) ==
    \/ p.from # NoDate /\ ~IsDate(p.from)
    \/ p.until # NoDate /\ ~IsDate(p.until)
    \/ /\ IsDate(p.from)
       /\ IsDate(p.until)
       /\ \/ p.from.shape # p.until.shape
          \/ FirstSecond(p.from) > LastSecond(p.until)

\* A parameter is missing or illegal: a token must have exactly the keys
\* of TokenKeys, a request metadataPrefix and nothing but from, until, set.
BadKeys(p, has_token) ==
    IF has_token THEN p.keys # TokenKeys
    ELSE \/ "metadataPrefix" \notin p.keys
         \/ ~(p.keys \subseteq
                 {"verb", "metadataPrefix", "from", "until", "set"})

\* The records that parameters `p` select.
Matching(p) ==
    {k \in DOMAIN db.records :
        /\ k[2] = p.metadataPrefix
        /\ IsDate(p.from) => db.records[k].datestamp >= FirstSecond(p.from)
        /\ IsDate(p.until) => db.records[k].datestamp <= LastSecond(p.until)
        /\ cfg.deleted_records = "no" => ~db.records[k].deleted
        /\ p.set # NONE => <<k[1], p.set>> \in db.links
        /\ p.offset # NONE => IdRank(k[1]) >= IdRank(p.offset)}

\* The OAI errors that parameters `p` deserve.
OriginalErrors(p, has_token) ==
    (IF BadKeys(p, has_token) \/ BadDates(p) THEN {"BadArgument"} ELSE {})
    \cup (IF \/ p.metadataPrefix \notin DOMAIN db.formats
              \/ /\ cfg.deleted_records = "no"
                 /\ db.formats[p.metadataPrefix].deleted
           THEN {"UnsupportedMetadataFormat"} ELSE {})
    \cup (IF "set" \in p.keys /\ DOMAIN db.sets = {}
           THEN {"NoSetHierarchy"} ELSE {})
    \cup (IF ~BadDates(p) /\ Matching(p) = {}
           THEN {"NoRecordsMatch"} ELSE {})

\* C18: a request whose token passed the token check answers
\* InvalidResumptionToken whenever the parameters of the token deserve
\* BadArgument (a missing or illegal field, bad dates),
\* UnsupportedMetadataFormat, NoSetHierarchy or NoRecordsMatch, and no
\* error otherwise; a well-formed token that is expired answers
\* ExpiredResumptionToken; a request without token answers one of the
\* errors its parameters deserve, as it is.
C18_ContinuationErrorsTranslated ==
    /\ Accepted(resp) =>
          resp.error = IF OriginalErrors(resp.params, TRUE) # {}
                       THEN "InvalidResumptionToken" ELSE ""
    /\ (/\ resp.kind = "continuation"
        /\ resp.request.keys = {"verb"}
        /\ WellFormed(resp.presented, resp.verb)
        /\ Expired(resp.presented)) =>
          resp.error = "ExpiredResumptionToken"
    /\ resp.kind = "initial" =>
          IF OriginalErrors(resp.params, FALSE) = {} THEN resp.error = ""
          ELSE resp.error \in OriginalErrors(resp.params, FALSE)

\* A token that passed the token check, with a from that is no datestamp,
\* was answered with InvalidResumptionToken, while sets and records of the
\* token's format exist.
C18_Witness ==
    /\ Accepted(resp)
    /\ resp.presented.from = Garbage
    /\ OriginalErrors(resp.params, TRUE) = {"BadArgument"}
    /\ resp.error = "InvalidResumptionToken"

\* ------------------------------------------------------------------- C19

\* The identifiers of the records the parameters select, and those among
\* them that do not fit the first page.
MatchingIds(p) == {k[1] : k \in Matching(p)}

Beyond(p) ==
    {i \in MatchingIds(p) :
        Cardinality({j \in MatchingIds(p) : IdRank(j) < IdRank(i)})
            >= cfg.item_list_limit}

\* C19: a list response without error has a token that is a JSON object
\* with the verb, metadataPrefix, from, until and set of the request (of
\* the presented token in a continuation), the identifier of the first
\* record beyond the page as offset and the time of the response as date
\* when records remain beyond the page; the empty string when none remain
\* and a token was presented; no token when none remain and no token was
\* presented.
C19_ThreeTokenOutcomes ==
    (resp.kind \in {"initial", "continuation"} /\ resp.error = "") =>
        IF Beyond(resp.params) # {}
        THEN /\ resp.token.kind = "token"
             /\ resp.token.json = "object"
             /\ resp.token.absent = {}
             /\ resp.token.nonstring = {}
             /\ ~resp.token.illegal
             /\ resp.token.verb = resp.params.verb
             /\ resp.token.metadataPrefix = resp.params.metadataPrefix
             /\ resp.token.from = resp.params.from
             /\ resp.token.until = resp.params.until
             /\ resp.token.set = resp.params.set
             /\ resp.token.offset \in Beyond(resp.params)
             /\ \A i \in Beyond(resp.params) :
                   IdRank(resp.token.offset) <= IdRank(i)
             /\ resp.token.date = FormatDatestamp(resp.time)
        ELSE IF resp.kind = "continuation" THEN resp.token = EmptyToken
        ELSE resp.token = NoToken

\* A token with from and until of a day was presented at second 1 and
\* answered with the first record and a token for the second, which has
\* the same from and until.
C19_Witness ==
    /\ resp.kind = "continuation"
    /\ resp.error = ""
    /\ resp.time = 1
    /\ resp.presented.from = DayText(0)
    /\ resp.presented.until = DayText(0)
    /\ resp.records = <<"i1">>
    /\ resp.token.kind = "token"
    /\ resp.token.offset = "i2"
    /\ resp.token.from = DayText(0)
    /\ resp.token.date = FormatDatestamp(1)

\* ------------------------------------------------------------------- C20

\* What is wrong with a token presented with `verb`, if anything.
NotJsonObject(tok) == tok.json # "object"

NonStringValue(tok) == tok.nonstring # {}

WrongVerb(tok, verb) == "verb" \in tok.absent \/ tok.verb # verb

NoTokenDate(tok) == "date" \in tok.absent \/ ~IsDate(tok.date)

Defective(tok, verb) ==
    \/ NotJsonObject(tok)
    \/ NonStringValue(tok)
    \/ WrongVerb(tok, verb)
    \/ NoTokenDate(tok)

\* C20: a request with verb and resumptionToken only is answered
\* InvalidResumptionToken when the token is no JSON object, has a value
\* that is neither null nor a string, has no verb or another verb than the
\* request, or has no date or a date that does not parse, whether or not
\* its date has expired; it is answered ExpiredResumptionToken only when
\* none of these holds and Datestamp.get() is at or after its date.
C20_InvalidBeforeExpired ==
    (resp.kind = "continuation" /\ resp.request.keys = {"verb"}) =>
        /\ Defective(resp.presented, resp.verb)
              => resp.error = "InvalidResumptionToken"
        /\ resp.error = "ExpiredResumptionToken"
              => ~Defective(resp.presented, resp.verb)
                 /\ Expired(resp.presented)

\* A ListRecords request presented a token of ListIdentifiers whose date
\* has expired, and was answered InvalidResumptionToken.
C20_Witness ==
    /\ resp.kind = "continuation"
    /\ resp.request.keys = {"verb"}
    /\ resp.verb = "ListRecords"
    /\ resp.presented.json = "object"
    /\ resp.presented.nonstring = {}
    /\ resp.presented.absent = {}
    /\ resp.presented.verb = "ListIdentifiers"
    /\ IsDate(resp.presented.date)
    /\ Expired(resp.presented)
    /\ resp.error = "InvalidResumptionToken"

\* ------------------------------------------------------------------- C21

\* The response is to a request with verb and resumptionToken only, whose
\* token is a JSON object of strings with the verb of the request and a
\* date that parses.
StructurallyValid(r) ==
    /\ r.kind = "continuation"
    /\ r.request.keys = {"verb"}
    /\ WellFormed(r.presented, r.verb)

\* C21: a structurally valid token is answered ExpiredResumptionToken
\* exactly when Datestamp.get() is not None and is at or after the date of
\* the token, a date of day granularity standing for 00:00:00 of the day;
\* when Datestamp.get() is None or before the date, the request is not
\* answered ExpiredResumptionToken.
C21_ExpiredIffChangedAtOrAfter ==
    StructurallyValid(resp) =>
        ((resp.error = "ExpiredResumptionToken")
            <=> \E latest \in DatestampGet(db) :
                   /\ latest.some
                   /\ latest.t >= (IF resp.presented.date.shape = "day"
                                   THEN resp.presented.date.value * DaySeconds
                                   ELSE resp.presented.date.value))

\* A token dated with day 0 was presented when the datestamp was second 1
\* and was answered ExpiredResumptionToken.
C21_Witness ==
    /\ StructurallyValid(resp)
    /\ resp.presented.date = DayText(0)
    /\ DatestampGet(db) = {[some |-> TRUE, t |-> 1]}
    /\ resp.error = "ExpiredResumptionToken"

\* ------------------------------------------------------------------- C22

\* The request has verb and maybe resumptionToken, each once, and nothing
\* else.
Plain(r) == r.request.keys = {"verb"} /\ r.request.repeated = {}

\* C22: a ListSets request with verb and resumptionToken is answered
\* InvalidResumptionToken whatever the token is (malformed, well formed and
\* fresh, or expired), and no request with resumptionToken returns sets; a
\* ListSets request with verb alone returns every row of the set table, or
\* is answered NoSetHierarchy when the table is empty.
C22_ListSetsNeverContinues ==
    resp.kind = "ListSets" =>
        /\ resp.presented.kind # "none" => resp.sets = {} /\ resp.error # ""
        /\ Plain(resp) =>
              IF resp.presented.kind # "none"
              THEN resp.error = "InvalidResumptionToken"
              ELSE IF DOMAIN db.sets = {}
              THEN resp.error = "NoSetHierarchy" /\ resp.sets = {}
              ELSE resp.error = "" /\ resp.sets = DOMAIN db.sets

\* A ListSets request presented a well-formed ListSets token whose date has
\* expired, while the set table had a row, and was answered
\* InvalidResumptionToken.
C22_Witness ==
    /\ resp.kind = "ListSets"
    /\ Plain(resp)
    /\ WellFormed(resp.presented, "ListSets")
    /\ resp.presented.kind = "token"
    /\ Expired(resp.presented)
    /\ DOMAIN db.sets # {}
    /\ resp.error = "InvalidResumptionToken"

\* ------------------------------------------------------------------- C23

\* What the engine shows under the deleted_records policy: everything
\* stored, or with "no" only what is not deleted.
Shown(row) == cfg.deleted_records = "no" => ~row.deleted

ItemShown(identifier) ==
    identifier \in DOMAIN db.items /\ Shown(db.items[identifier])

FormatShown(prefix) ==
    prefix \in DOMAIN db.formats /\ Shown(db.formats[prefix])

RecordShown(identifier, prefix) ==
    /\ <<identifier, prefix>> \in DOMAIN db.records
    /\ Shown(db.records[<<identifier, prefix>>])

\* The arguments of a GetRecord request are not verb, identifier and
\* metadataPrefix, each once.
BadRecordArguments(p) ==
    \/ p.keys # {"verb", "identifier", "metadataPrefix"}
    \/ p.repeated # {}

\* C23: GetRecord reports the first failure in the order arguments (a
\* BadVerb error or BadArgument), item (IdDoesNotExist), format
\* (UnsupportedMetadataFormat), record (UnavailableMetadataFormat), and a
\* response without error has exactly one record, that of the identifier.
C23_GetRecordFirstFailure ==
    resp.kind = "GetRecord" =>
        IF BadRecordArguments(resp.request)
        THEN resp.error \in {"RepeatedVerb", "BadArgument"}
        ELSE IF ~ItemShown(resp.request.identifier)
        THEN resp.error = "IdDoesNotExist"
        ELSE IF ~FormatShown(resp.request.metadataPrefix)
        THEN resp.error = "UnsupportedMetadataFormat"
        ELSE IF ~RecordShown(resp.request.identifier,
                             resp.request.metadataPrefix)
        THEN resp.error = "UnavailableMetadataFormat"
        ELSE resp.error = "" /\ resp.records = <<resp.request.identifier>>

\* GetRecord was asked for an identifier and a metadataPrefix which both
\* are unknown and answered IdDoesNotExist.
C23_Witness ==
    /\ resp.kind = "GetRecord"
    /\ ~BadRecordArguments(resp.request)
    /\ ~ItemShown(resp.request.identifier)
    /\ ~FormatShown(resp.request.metadataPrefix)
    /\ "i1" \in DOMAIN db.items
    /\ resp.error = "IdDoesNotExist"

\* ------------------------------------------------------------------- C24

\* Every argument besides verb is one the verb requires or allows, none
\* is given twice, and every required one is given.
LegalArguments(p) ==
    /\ \A name \in p.keys \ {"verb"} :
          name \in Required(p.verb) \cup Allowed(p.verb)
    /\ p.repeated = {}
    /\ Required(p.verb) \subseteq p.keys

\* What the argument checker owes to the arguments: "" for acceptance.
ArgumentError(p) ==
    IF "verb" \notin p.keys THEN "MissingVerb"
    ELSE IF "verb" \in p.repeated THEN "RepeatedVerb"
    ELSE IF ~LegalArguments(p) THEN "BadArgument"
    ELSE ""

ArgumentErrors == {"MissingVerb", "RepeatedVerb", "InvalidVerb", "BadArgument"}

\* C24: _check_params accepts the arguments iff verb is given once, every
\* other argument is required or allowed by the verb, none is given twice
\* and every required one is given; it raises MissingVerb without verb,
\* RepeatedVerb with verb given twice, both whatever else is wrong, and
\* BadArgument otherwise.  A request without verb is answered MissingVerb,
\* one whose verb has no view InvalidVerb, and the view of a verb answers
\* with what _check_params raises, or with no argument error.
C24_ArgumentChecker ==
    /\ resp.kind = "check_params" => resp.error = ArgumentError(resp.request)
    /\ resp.kind \notin {"none", "check_params"} =>
          IF "verb" \notin resp.request.keys THEN resp.error = "MissingVerb"
          ELSE IF resp.request.verb \notin KnownVerbs
          THEN resp.error = "InvalidVerb"
          ELSE IF ArgumentError(resp.request) # ""
          THEN resp.error = ArgumentError(resp.request)
          ELSE resp.error \notin ArgumentErrors

\* _check_params was called with verb given twice and an argument the verb
\* does not know, and raised RepeatedVerb.
C24_Witness ==
    /\ resp.kind = "check_params"
    /\ "verb" \in resp.request.repeated
    /\ "x" \in resp.request.keys
    /\ resp.error = "RepeatedVerb"

\* ------------------------------------------------------------------- C25

\* The text has one of the two shapes of a datestamp.
HasShape(text) == text.shape \in {"second", "day"}

\* from and until as given are acceptable: each has one of the two shapes
\* and, when both are given, they have the same granularity and from, read
\* from 00:00:00 of a day, is not after until, read to 23:59:59 of a day.
AcceptableDates(from, until) ==
    /\ from # NoDate => HasShape(from)
    /\ until # NoDate => HasShape(until)
    /\ (from # NoDate /\ until # NoDate) =>
          /\ from.shape = until.shape
          /\ FirstSecond(from) <= LastSecond(until)

\* C25: a list request whose metadataPrefix is supported is answered
\* BadArgument exactly when from and until are not acceptable, whatever the
\* records are.
C25_FromUntilAccepted ==
    (resp.kind = "initial" /\ FormatShown(resp.request.metadataPrefix)) =>
        ((resp.error = "BadArgument")
            <=> ~AcceptableDates(resp.request.from, resp.request.until))

\* ------------------------------------------------------------------- C26

\* The parameters filter by a set.
SetInEffect(p) == p.set # NONE

\* C26: a list request is rejected for the lack of a set hierarchy only
\* when its parameters filter by a set and the set table is empty: a
\* request without token answered NoSetHierarchy has a set and finds the
\* table empty, and a request whose accepted token has set = null and
\* deserves no other error is answered with records.
C26_NoSetHierarchyNeedsSetFilter ==
    /\ (resp.kind = "initial" /\ resp.error = "NoSetHierarchy") =>
          SetInEffect(resp.params) /\ DOMAIN db.sets = {}
    /\ (/\ Accepted(resp)
        /\ ~SetInEffect(resp.params)
        /\ OriginalErrors(resp.params, TRUE) \subseteq {"NoSetHierarchy"}) =>
          resp.error = ""

\* ------------------------------------------------------------------- C27

\* The records of the store that satisfy every filter of the query.
Satisfying(q) ==
    {k \in DOMAIN db.records :
        /\ k[2] = q.metadata_prefix
        /\ q.from_date.some => q.from_date.t <= db.records[k].datestamp
        /\ q.until_date.some => db.records[k].datestamp <= q.until_date.t
        /\ q.offset # NONE => IdRank(q.offset) <= IdRank(k[1])
        /\ q.ignore_deleted => ~db.records[k].deleted
        /\ q.set_ # NONE => <<k[1], q.set_>> \in db.links}

\* The sequence has, in ascending order of identifier, the first `n` of
\* the identifiers of `S`, or all of them when they are fewer.
FirstOf(seq, S, n) ==
    /\ \A a, b \in 1..Len(seq) : a < b => IdRank(seq[a]) < IdRank(seq[b])
    /\ {seq[a] : a \in 1..Len(seq)} \subseteq S
    /\ Len(seq) = IF Cardinality(S) < n THEN Cardinality(S) ELSE n
    /\ \A i \in S : \A a \in 1..Len(seq) :
          IdRank(i) < IdRank(seq[a]) => \E b \in 1..Len(seq) : seq[b] = i

\* C27: Record.list raises for a negative limit, and otherwise returns the
\* records that satisfy every filter given (prefix, from_date and
\* until_date inclusive, offset inclusive, not deleted when ignore_deleted,
\* item linked to the set of exactly the spec set_), in ascending order of
\* identifier, the first `limit` of them when limit is given, none for
\* limit 0.
C27_RecordListFilters ==
    resp.kind = "Record.list" =>
        LET q == resp.query
            S == {k[1] : k \in Satisfying(q)}
        IN IF q.limit.some /\ q.limit.n < 0 THEN resp.error = "ValueError"
           ELSE /\ resp.error = ""
                /\ FirstOf(resp.records, S,
                           IF q.limit.some THEN q.limit.n ELSE Cardinality(S))

\* Both items have a record in oai_dc that is not deleted; the first item
\* is only in the set a:b, the second one in a; the records of set a were
\* asked for, and the record of the second item alone was returned.
C27_Witness ==
    /\ resp.kind = "Record.list"
    /\ resp.query = [NoQuery EXCEPT !.metadata_prefix = "oai_dc",
                                    !.set_ = "a"]
    /\ db.links = {<<"i1", "a:b">>, <<"i2", "a">>}
    /\ <<"i1", "oai_dc">> \in DOMAIN db.records
    /\ <<"i2", "oai_dc">> \in DOMAIN db.records
    /\ ~db.records[<<"i1", "oai_dc">>].deleted
    /\ ~db.records[<<"i2", "oai_dc">>].deleted
    /\ resp.records = <<"i2">>

\* ------------------------------------------------------------------- C28

\* `x` is a proper ancestor of `y`: its segments are the first ones of `y`,
\* which has more.
ProperAncestor(x, y) ==
    /\ Len(Path(x)) < Len(Path(y))
    /\ \A n \in 1..Len(Path(x)) : Path(x)[n] = Path(y)[n]

\* The specs of the sets the item is linked to.
LinkedSpecs(identifier) == {l[2] : l \in {m \in db.links : m[1] = identifier}}

\* C28: what set_specs of a record returns is an antichain that covers the
\* links of its item: no returned spec is a proper ancestor of another,
\* every returned spec is linked, and every linked spec is returned or is
\* a proper ancestor of a returned one.
C28_SetSpecsAntichain ==
    resp.kind = "set_specs" =>
        LET returned == {resp.specs[n] : n \in 1..Len(resp.specs)}
            linked == LinkedSpecs(resp.params.identifier)
        IN /\ \A x, y \in returned : ~ProperAncestor(x, y)
           /\ returned \subseteq linked
           /\ \A spec \in linked :
                 \/ spec \in returned
                 \/ \E x \in returned : ProperAncestor(spec, x)

\* The item is in all five sets, the other item in none of them but e, and
\* set_specs returned the three that have no subset.
C28_Witness ==
    /\ resp.kind = "set_specs"
    /\ resp.params.identifier = "i1"
    /\ LinkedSpecs("i1") = TreeSpecs
    /\ LinkedSpecs("i2") = {"e"}
    /\ Len(resp.specs) = 3
    /\ {resp.specs[n] : n \in 1..Len(resp.specs)} = {"a:b:c", "a:d", "e"}

\* ------------------------------------------------------------------- C29

\* The step of update_formats or update_items raised: the run did not go
\* on to the next step.
StepRaised ==
    \/ run.pc = "formats" /\ run'.pc # "items"
    \/ run.pc = "items" /\ run'.pc # "records"

\* The step was rolled back and update was left by an exception: the
\* session and the database are the database as last committed.
RolledBack ==
    /\ tx' = db
    /\ db' = db
    /\ run'.pc = "idle"
    /\ ~run'.completed
    /\ run'.error # ""

\* C29: when update_formats or update_items raises, the writes of the step
\* are rolled back, HarvestError is raised, the following steps of the run
\* are not executed, and what earlier steps of the run committed remains.
C29_StepFailureRaisesHarvestError ==
    [][(run' # run /\ StepRaised) =>
          (RolledBack /\ run'.error = "HarvestError")]_vars

\* ------------------------------------------------------------------- C30

\* The pass of the loop over prefixes for `prefix` failed: get_record
\* raised, or Record.create_or_update rejected what it returned.
RecordFailed(prefix) ==
    \/ <<run.cur, prefix>> \notin DOMAIN run'.got
    \/ /\ <<run.cur, prefix>> \in DOMAIN run'.got
       /\ run'.got[<<run.cur, prefix>>] # XmlNull
       /\ ~RecordCreateOrUpdate(tx, run.cur, prefix,
                                run'.got[<<run.cur, prefix>>], now).ok

\* A pass of the loop over prefixes: the run goes on with the remaining
\* prefixes and identifiers, and a failed pass leaves the database as it
\* was.
PrefixPass ==
    \E prefix \in run.todoPrefixes :
        /\ run'.pc = "records"
        /\ run'.todo = run.todo
        /\ run'.todoPrefixes = run.todoPrefixes \ {prefix}
        /\ RecordFailed(prefix) => db' = db

\* The head of the loop over identifiers: the run goes on with the records
\* of the identifier or, when update_sets failed, with the remaining
\* identifiers.
IdentifierPass ==
    \E identifier \in run.todo :
        /\ run'.pc = "records"
        /\ run'.todo = run.todo \ {identifier}
        /\ run'.cur \in {NONE, identifier}
        /\ db' = db

\* C30: in update_records a failure for one (identifier, prefix) leaves
\* the stored record unchanged, does not raise out of the run and does not
\* keep the remaining prefixes and identifiers from being processed; a
\* failure of update_sets skips the records of that identifier only.
C30_RecordFailureStaysLocal ==
    [][(run' # run /\ run.pc = "records") =>
          /\ run'.error = ""
          /\ run.cur # NONE => PrefixPass
          /\ (run.cur = NONE /\ run.todo # {}) => IdentifierPass]_vars

\* ------------------------------------------------------------------- C31

\* The importer has been started: the run about to begin has the value of
\* the file as since, or none under force_update or with a file that is
\* missing or unreadable, and the file is as it was.
Started ==
    /\ run'.old_timestamp =
          IF cfg.force_update \/ cfg.timestamp \in {NoFile, Garbage}
          THEN NoDatestamp
          ELSE [some |-> TRUE, t |-> cfg.timestamp.value]
    /\ run'.since = run'.old_timestamp.some
    /\ run'.new_timestamp = now
    /\ cfg'.timestamp = cfg.timestamp

\* At the head of the loop of a run, an item that changed at or after the
\* time in the file - the start of the last run that returned - is not
\* skipped.
Reexamined ==
    \A identifier \in run.todo \ run'.todo :
        (cfg.timestamp.shape = "second"
            /\ provider.changed[identifier] >= cfg.timestamp.value)
            => run'.cur = identifier

\* C31: the timestamp file is rewritten only when update returned, with
\* the time taken before update was called; every other step, a failed
\* run included, leaves it unchanged; the next run is given the value of
\* the file as since, or none under force_update or without a readable
\* file; so an item that changed at or after the start of the last
\* successful run is examined again.
C31_TimestampFile ==
    [][/\ (run.pc = "idle" /\ run'.pc # "idle") => Started
       /\ (run.pc # "idle" /\ run'.pc = "idle" /\ run'.completed)
             => /\ cfg'.timestamp = FormatDatestamp(run.new_timestamp)
                /\ run'.error = ""
       /\ ~(run.pc # "idle" /\ run'.pc = "idle" /\ run'.completed)
             => cfg'.timestamp = cfg.timestamp
       /\ run.pc # "idle" => run'.pc = "idle"
                               \/ run'.new_timestamp = run.new_timestamp
       /\ (run.pc = "records" /\ run.cur = NONE) => Reexamined]_vars

\* A run that began at second 0 with the file of an earlier run has
\* returned later, the file holds second 0, and the item changed while it
\* ran.
C31_Witness ==
    /\ run.pc = "idle"
    /\ run.completed
    /\ now > 0
    /\ cfg.timestamp = FormatDatestamp(0)
    /\ provider.changed["i1"] = now
    /\ <<"i1", "oai_dc">> \in DOMAIN db.records

\* ------------------------------------------------------------------- C32

\* The arguments of the call have one of the defects: the prefix or the
\* identifier is unknown, or the document is not well formed, has another
\* root namespace than the format, has no xsi:schemaLocation or does not
\* list the schema of the format.
RejectedRecord(s, identifier, prefix, xml) ==
    \/ prefix \notin DOMAIN s.formats
    \/ identifier \notin DOMAIN s.items
    \/ xml.kind # "doc"
    \/ xml.ns # s.formats[prefix].namespace
    \/ ~xml.hasLoc
    \/ s.formats[prefix].schema \notin xml.loc

\* C32: Record.create_or_update raises for an unknown prefix, an unknown
\* identifier and a document that is ill-formed, of another namespace,
\* without xsi:schemaLocation or without the schema of the format; when it
\* raises no record has been created, every record has its xml, deleted
\* flag and datestamp, and the Datestamp is as before.
C32_CreateOrUpdateRejects ==
    resp.kind = "Record.create_or_update" =>
        /\ RejectedRecord(db, resp.params.identifier, resp.params.metadataPrefix,
                          resp.xml) => resp.error = "ValueError"
        /\ resp.error = "ValueError" =>
              /\ resp.store.records = db.records
              /\ resp.store.datestamps = db.datestamps

\* The call was made for the deleted record of a format whose namespace
\* has changed, with the document of the old namespace, and raised.
C32_Witness ==
    /\ resp.kind = "Record.create_or_update"
    /\ resp.error = "ValueError"
    /\ resp.params.identifier = "i1"
    /\ resp.params.metadataPrefix = "ddi"
    /\ <<"i1", "ddi">> \in DOMAIN db.records
    /\ db.records[<<"i1", "ddi">>].deleted
    /\ resp.xml = db.records[<<"i1", "ddi">>].xml
    /\ "ddi" \in DOMAIN db.formats
    /\ resp.xml.ns # db.formats["ddi"].namespace

\* ------------------------------------------------------------------- C33

\* The live records of the prefix in the store.
LiveOf(s, prefix) ==
    {k \in DOMAIN s.records : k[2] = prefix /\ ~s.records[k].deleted}

\* The call changed the declaration of an existing format.
Redeclared(s, prefix, f) ==
    /\ prefix \in DOMAIN s.formats
    /\ \/ s.formats[prefix].namespace # f.namespace
       \/ s.formats[prefix].schema # f.schema

\* The records and the Datestamp after the live records of the prefix have
\* been deleted at `time`.
Cascaded(s, after, prefix, time) ==
    /\ DOMAIN after.records = DOMAIN s.records
    /\ \A k \in DOMAIN s.records :
          after.records[k] =
              IF k \in LiveOf(s, prefix)
              THEN [s.records[k] EXCEPT !.deleted = TRUE, !.datestamp = time]
              ELSE s.records[k]
    /\ after.datestamps = IF LiveOf(s, prefix) = {} THEN s.datestamps
                          ELSE {time}

\* C33: Format.create_or_update rejects a prefix with a character that is
\* not URL-unreserved; otherwise the format is there afterwards, not
\* deleted, with the given namespace and schema.  When these differ from
\* the stored ones the live records of the prefix are deleted with a new
\* datestamp and the Datestamp is set; when they are equal, or the prefix
\* was absent, no record and no Datestamp changes, so the records of a
\* soft-deleted format stay deleted.
C33_FormatCreateOrUpdate ==
    resp.kind = "Format.create_or_update" =>
        LET prefix == resp.params.metadataPrefix
        IN IF prefix = "d d i"
           THEN resp.error = "ValueError" /\ resp.store = db
           ELSE /\ resp.error = ""
                /\ DOMAIN resp.store.formats = DOMAIN db.formats \cup {prefix}
                /\ resp.store.formats[prefix] =
                      [namespace |-> resp.format.namespace,
                       schema |-> resp.format.schema, deleted |-> FALSE]
                /\ \A q \in DOMAIN db.formats \ {prefix} :
                      resp.store.formats[q] = db.formats[q]
                /\ resp.store.items = db.items
                /\ IF Redeclared(db, prefix, resp.format)
                   THEN Cascaded(db, resp.store, prefix, resp.time)
                   ELSE /\ resp.store.records = db.records
                        /\ resp.store.datestamps = db.datestamps

\* The declaration of ddi was changed at second 1 while the item had a
\* live record of second 0 in it.
C33_Witness ==
    /\ resp.kind = "Format.create_or_update"
    /\ resp.params.metadataPrefix = "ddi"
    /\ Redeclared(db, "ddi", resp.format)
    /\ <<"i1", "ddi">> \in LiveOf(db, "ddi")
    /\ db.records[<<"i1", "ddi">>].datestamp = 0
    /\ resp.time = 1
    /\ resp.store.records[<<"i1", "ddi">>].deleted

\* ------------------------------------------------------------------- C34

\* The formats ListMetadataFormats without identifier would list now.
VisibleFormats == FormatList(db, IgnoreDeleted(cfg))

\* C34: in every committed store some format is visible under the
\* engine's deleted_records setting, and ListMetadataFormats without
\* identifier never fails its assertion.
C34_SomeFormatVisible ==
    /\ VisibleFormats # {}
    /\ resp.kind = "ListMetadataFormats" => resp.error # "AssertionError"

\* ListMetadataFormats without identifier is answered under policy "no"
\* after a run has purged oai_dc and a later run has failed.
C34_Witness ==
    /\ resp.kind = "ListMetadataFormats"
    /\ "identifier" \notin resp.params.keys
    /\ resp.error = ""
    /\ resp.formats = {"ddi"}
    /\ "oai_dc" \notin DOMAIN db.formats
    /\ cfg.deleted_records = "no"
    /\ run.error = "HarvestError"

\* ------------------------------------------------------------------- C35

\* The pages one after the other.
RECURSIVE Concat(_)
Concat(pages) ==
    IF pages = <<>> THEN <<>> ELSE Head(pages) \o Concat(Tail(pages))

\* Every record that matches the first request, in ascending order.
FullList(params) ==
    LET dates == ParseFromAndUntil(params.from, params.until)
    IN RecordList(db, params.metadataPrefix, dates.from_date,
                  dates.until_date, params.set, IgnoreDeleted(cfg), NONE,
                  NoLimit)

\* The harvest has come to its end: the last response had no token or the
\* empty one.
ChainEnded == resp.pages # <<>> /\ token.kind # "token"

\* C35: the pages collected by following the tokens are, one after the
\* other, the beginning of the full list of matching records in ascending
\* identifier order, and the whole of it when the chain has ended (with the
\* empty token if there was more than one page); each page has between 1
\* and item_list_limit records, and every token has the verb,
\* metadataPrefix, from, until and set of the first request.
C35_PagesMakeTheList ==
    resp.pages # <<>> =>
        LET all == Concat(resp.pages)
            full == FullList(resp.first)
        IN /\ \A n \in 1..Len(resp.pages) :
                 /\ Len(resp.pages[n]) >= 1
                 /\ Len(resp.pages[n]) <= cfg.item_list_limit
           /\ \A a, b \in 1..Len(full) :
                 a < b => IdRank(full[a]) < IdRank(full[b])
           /\ Len(all) <= Len(full)
           /\ all = SubSeq(full, 1, Len(all))
           /\ ChainEnded =>
                 /\ all = full
                 /\ Len(resp.pages) > 1 <=> token.kind = "empty"
           /\ token.kind = "token" =>
                 /\ Len(all) < Len(full)
                 /\ token.verb = resp.first.verb
                 /\ token.metadataPrefix = resp.first.metadataPrefix
                 /\ token.from = resp.first.from
                 /\ token.until = resp.first.until
                 /\ token.set = resp.first.set

\* Three records of set a not later than second 0 were harvested in a page
\* of two and a page of one.
C35_Witness ==
    /\ ChainEnded
    /\ token.kind = "empty"
    /\ Len(resp.pages) = 2
    /\ Len(resp.pages[1]) = 2
    /\ Len(resp.pages[2]) = 1
    /\ resp.first.set = "a"
    /\ resp.first.until = FormatDatestamp(0)

\* ------------------------------------------------------------------- C36

\* The least number of pages of at most `limit` records that hold n
\* records.
PagesFor(n, limit) == (n + limit - 1) \div limit

DatestampCovers(s) ==
    /\ DOMAIN s.records # {} => s.datestamps # {}
    /\ \A latest \in DatestampGet(s), k \in DOMAIN s.records :
          latest.some /\ latest.t >= s.records[k].datestamp

\* C37: in the database the runs leave, and in the session of a run,
\* Datestamp.get() is not None when a record exists and no record has a
\* datestamp after it.
C37_DatestampCoversRecords ==
    /\ DatestampCovers(db)
    /\ DatestampCovers(tx)

\* A record written at second 0 and one written or deleted at second 1
\* are in the database, whose Datestamp is second 1.
C37_Witness ==
    /\ run.pc = "idle"
    /\ db.datestamps = {1}
    /\ \E j, k \in DOMAIN db.records :
          /\ db.records[j].datestamp = 0
          /\ db.records[k].datestamp = 1

\* ------------------------------------------------------------------- C38

\* The sets the item is linked to in the store.
LinkedTo(s, identifier) == {l[2] : l \in {m \in s.links : m[1] = identifier}}

\* The step ends the loop over the prefixes of the identifier in hand,
\* whose update_sets had succeeded.
IdentifierProcessed ==
    /\ run.pc = "records"
    /\ run.cur # NONE
    /\ run'.pc = "records"
    /\ run'.cur = NONE

\* C38: when update_records has gone through the prefixes of an
\* identifier whose update_sets succeeded, the committed links of the item
\* are the sets provider.get_sets returned, whatever failed in the loop
\* over the prefixes.
C38_LinksFollowProvider ==
    [][IdentifierProcessed => LinkedTo(db', run.cur) = run.sets]_vars

\* The same, for an identifier whose first pass of the loop over the
\* prefixes was committed.
FirstPassCommitted == run.cur # NONE /\ run.todoPrefixes # run.prefixes
                          /\ LinkedTo(db, run.cur) = run.sets

LinksKeptAfterCommit ==
    [][FirstPassCommitted => LinkedTo(db', run.cur) = run.sets]_vars

\* ------------------------------------------------------------------- C39

\* C39: once the provider has been repaired after a run in which the
\* record failed, and the item does not change again, some later run
\* imports the record.
C39_FailedRecordRetried == provider.repaired ~> Imported

\* The item has changed since the time in the timestamp file.
ChangedSinceTimestamp ==
    /\ run.pc = "idle"
    /\ provider.changed["i1"] >= ReadTimestamp(cfg.timestamp).t

\* The same, for an item that has changed since the time in the timestamp
\* file.
RetriedWhenChanged ==
    (provider.repaired /\ ChangedSinceTimestamp) ~> Imported

\* ------------------------------------------------------------------- C40

\* update has returned from a run made after another, the provider being
\* the same.
RepeatReturned == provider.repeat /\ run.pc = "idle" /\ run.completed

\* C40: a run made again on an unchanged provider, without since and with
\* the same purge flag, leaves the records, the items, the formats and the
\* Datestamp as they were when it began.
C40_SecondRunChangesNothing ==
    RepeatReturned =>
        /\ db.records = provider.baseline.records
        /\ db.items = provider.baseline.items
        /\ db.formats = provider.baseline.formats
        /\ db.datestamps = provider.baseline.datestamps

\* The same, when deleted records are kept (update is called without
\* purge).
SecondRunKeepsWithoutPurge ==
    RepeatReturned /\ ~Purge => db = provider.baseline

\* The same, when the run began without a record that is marked as
\* deleted.
SecondRunKeepsWithoutTombstone ==
    /\ RepeatReturned
    /\ \A k \in DOMAIN provider.baseline.records :
          ~provider.baseline.records[k].deleted
    => db = provider.baseline

=============================================================================
